---------------------------- MODULE Spec2Model ----------------------------
(***************************************************************************)
(* Model of the three-tier Vietnamese address parser                      *)
(* (src/Src/address_parser_v3.py) together with the database indices it   *)
(* reads (src/Src/address_database.py), the token trie                     *)
(* (src/Src/trie_parser.py), the alias generator, the two normalizers and  *)
(* the LCS / edit-distance matchers.                                       *)
(*                                                                         *)
(* Strings are sequences of one-character strings, so that every           *)
(* character-level step of the code (lowercasing, diacritic folding,       *)
(* punctuation handling, edit distance) is computed and not assumed.       *)
(* None and the empty string are both modelled by the empty sequence (for  *)
(* names) and by "" (for codes): the code tests them only by truthiness.   *)
(*                                                                         *)
(* parse reads self.db.norm_config (address_parser_v3.py line 102), an     *)
(* attribute that no AddressDatabase of the sources assigns.  The model    *)
(* takes it to be NormalizationConfig(provinces), the one way the sources  *)
(* build such a configuration from the reference data                      *)
(* (archive/normalizer.py lines 242-249, test_full_config.py line 15).     *)
(***************************************************************************)
EXTENDS Integers, Sequences, FiniteSets, TLC

(***************************************************************************)
(* Characters                                                              *)
(***************************************************************************)

\* the capital I with dot above, a letter (category Lu); a character outside
\* Latin-1 is written by its code point
CapitalDottedI == "U+0130"

\* the combining dot above, a mark (category Mn)
CombiningDot == "U+0307"

\* the characters that occur in the reference names and in the inputs
LowerLetters == {"a", "b", "i", "x", "à", "ã"}

UpperLetters == {"A", "B", CapitalDottedI}

Letters == LowerLetters \cup UpperLetters

\* string.punctuation, restricted to the characters of the model
Punctuation == {".", ",", "-", "/", "_"}

\* str.isspace
IsSpace(c) == c = " "

\* regex \w
IsWordChar(c) == c \in Letters \/ c = "_"

\* regex class [a-zA-ZÀ-ỹ\d] of build_expansion_patterns
IsNameChar(c) == c \in Letters

\* str.lower on one character: a string, of two characters for U+0130
\* (capital I with dot above), whose lowercase is i followed by U+0307
LowerChar(c) ==
    IF c = "A" THEN <<"a">>
    ELSE IF c = "B" THEN <<"b">>
    ELSE IF c = CapitalDottedI THEN <<"i", CombiningDot>>
    ELSE <<c>>

\* VIETNAMESE_CHAR_MAP.get(char, char) after lowercasing
FoldChar(c) == IF c \in {"à", "ã"} THEN "a" ELSE c

\* unicodedata.category(char)[0]
Category(c) ==
    IF c \in Letters THEN "L"
    ELSE IF c = " " THEN "Z"
    ELSE IF c \in Punctuation THEN "P"
    ELSE "S"

(***************************************************************************)
(* Python string primitives                                                *)
(***************************************************************************)

\* str.lower
RECURSIVE Lower(_)
Lower(s) == IF s = <<>> THEN <<>> ELSE LowerChar(Head(s)) \o Lower(Tail(s))

\* s[i:] (1-based, inclusive start)
Drop(s, i) == SubSeq(s, i, Len(s))

\* s.startswith(p) at offset i (1-based)
StartsAt(s, i, p) ==
    /\ i + Len(p) - 1 <= Len(s)
    /\ \A k \in 1..Len(p) : s[i + k - 1] = p[k]

RECURSIVE SplitFrom(_, _, _, _)
SplitFrom(s, i, cur, acc) ==
    IF i > Len(s)
    THEN IF cur = <<>> THEN acc ELSE Append(acc, cur)
    ELSE IF IsSpace(s[i])
         THEN SplitFrom(s, i + 1, <<>>, IF cur = <<>> THEN acc ELSE Append(acc, cur))
         ELSE SplitFrom(s, i + 1, Append(cur, s[i]), acc)

\* str.split() with no argument
Split(s) == SplitFrom(s, 1, <<>>, <<>>)

RECURSIVE JoinWith(_, _)
JoinWith(sep, toks) ==
    IF toks = <<>> THEN <<>>
    ELSE IF Len(toks) = 1 THEN toks[1]
    ELSE toks[1] \o sep \o JoinWith(sep, Tail(toks))

\* " ".join(tokens)
Join(toks) == JoinWith(<<" ">>, toks)

\* "".join(tokens)
Concat(toks) == JoinWith(<<>>, toks)

\* text.strip() followed by ' '.join(text.split()), and re.sub(r'\s+', ' ', text).strip()
CollapseSpaces(s) == Join(Split(s))

RECURSIVE LStrip(_)
LStrip(s) == IF s # <<>> /\ IsSpace(s[1]) THEN LStrip(Tail(s)) ELSE s

RECURSIVE RStrip(_)
RStrip(s) == IF s # <<>> /\ IsSpace(s[Len(s)]) THEN RStrip(SubSeq(s, 1, Len(s) - 1)) ELSE s

\* str.strip()
Strip(s) == RStrip(LStrip(s))

RECURSIVE ReplaceFrom(_, _, _, _)
ReplaceFrom(s, i, old, new) ==
    IF i > Len(s) THEN <<>>
    ELSE IF StartsAt(s, i, old)
         THEN new \o ReplaceFrom(s, i + Len(old), old, new)
         ELSE <<s[i]>> \o ReplaceFrom(s, i + 1, old, new)

\* str.replace(old, new) for a non-empty old
Replace(s, old, new) == ReplaceFrom(s, 1, old, new)

\* str.translate(str.maketrans('', '', chars)): delete the characters of a set
DeleteChars(s, chars) == SelectSeq(s, LAMBDA c : c \notin chars)

\* replace every character of a set by a space
SpaceChars(s, chars) == [i \in 1..Len(s) |-> IF s[i] \in chars THEN " " ELSE s[i]]


(***************************************************************************)
(* Index-time normalizer: TextNormalizer.normalize (text_normalizer.py)    *)
(***************************************************************************)

\* TextNormalizer._remove_special_symbols: keep categories L, N, Z, P
RemoveSpecialSymbols(s) == SelectSeq(s, LAMBDA c : Category(c) \in {"L", "N", "Z", "P"})

\* TextNormalizer._apply_char_map
ApplyCharMap(s) == [i \in 1..Len(s) |-> FoldChar(s[i])]

RECURSIVE SpaceAfterComma(_, _)
SpaceAfterComma(s, i) ==
    IF i > Len(s) THEN <<>>
    ELSE IF s[i] = "," /\ i < Len(s) /\ ~IsSpace(s[i + 1])
         THEN <<",", " ">> \o SpaceAfterComma(s, i + 1)
         ELSE <<s[i]>> \o SpaceAfterComma(s, i + 1)

\* TextNormalizer._clean_whitespace: collapse, strip, then re.sub(r',(?=\S)', ', ')
CleanWhitespace(s) == SpaceAfterComma(CollapseSpaces(s), 1)

\* MEANINGFUL_PUNCT
MeaningfulPunct == {".", ",", "/"}

\* _handle_punctuation deleting '.', ',' and '/' in aggressive mode
HandlePunctuationDeleting(s, aggressive) ==
    IF aggressive
    THEN DeleteChars(s, Punctuation)
    ELSE DeleteChars(Replace(s, <<"-">>, <<" ">>), (Punctuation \ MeaningfulPunct) \ {"-"})

\* TextNormalizer._handle_punctuation
HandlePunctuation(s, aggressive) ==
    IF aggressive
    THEN DeleteChars(SpaceChars(s, MeaningfulPunct), Punctuation)
    ELSE DeleteChars(Replace(s, <<"-">>, <<" ">>), (Punctuation \ MeaningfulPunct) \ {"-"})

\* TextNormalizer.normalize; hasCharMap is bool(self.char_map)
TextNormalize(text, aggressive, hasCharMap) ==
    IF text = <<>> THEN <<>>
    ELSE LET s1 == RemoveSpecialSymbols(text)
             s2 == Lower(s1)
             s3 == IF hasCharMap THEN ApplyCharMap(s2) ELSE s2
             s4 == CleanWhitespace(s3)
             s5 == HandlePunctuation(s4, aggressive)
             s6 == CleanWhitespace(s5)
         IN  s6

\* AddressDatabase.__init__ builds self.normalizer = TextNormalizer() with
\* no char_map, so the database normalizer skips the diacritic stage.
DbNormalize(name) == TextNormalize(name, TRUE, FALSE)

(***************************************************************************)
(* Query-time normalizer: archive/normalizer.py normalize_text             *)
(***************************************************************************)

\* regex \s*: the length of the run of spaces that starts at index i
RECURSIVE SpaceRun(_, _)
SpaceRun(s, i) ==
    IF i <= Len(s) /\ IsSpace(s[i]) THEN 1 + SpaceRun(s, i + 1) ELSE 0

\* regex [a-zA-ZÀ-ỹ\d]*: the length of the run of name characters that
\* starts at index i
RECURSIVE NameRun(_, _)
NameRun(s, i) ==
    IF i <= Len(s) /\ IsNameChar(s[i]) THEN 1 + NameRun(s, i + 1) ELSE 0

\* regex \b in front of a word character at index i
WordStart(s, i) == i = 1 \/ ~IsWordChar(s[i - 1])

\* re.sub(r'\b<lit>\s{minSpaces,}([a-zA-ZÀ-ỹ\d]+)', '<repl> \1', text)
RECURSIVE ExpandFrom(_, _, _, _, _)
ExpandFrom(s, i, lit, minSpaces, repl) ==
    IF i > Len(s) THEN <<>>
    ELSE LET j  == i + Len(lit)
             sp == SpaceRun(s, j)
             wd == NameRun(s, j + sp)
         IN  IF WordStart(s, i) /\ StartsAt(s, i, lit) /\ sp >= minSpaces /\ wd >= 1
             THEN repl \o <<" ">> \o SubSeq(s, j + sp, j + sp + wd - 1)
                       \o ExpandFrom(s, j + sp + wd, lit, minSpaces, repl)
             ELSE <<s[i]>> \o ExpandFrom(s, i + 1, lit, minSpaces, repl)

\* build_expansion_patterns: the patterns whose literal can occur in a text
\* over the model's letters (x., x, xa -> xã); the others start with letters
\* (t, q, h, p) that no name or input of the model contains.
ExpandAbbreviations(s) ==
    LET e1 == ExpandFrom(s, 1, <<"x", ".">>, 0, <<"x", "ã">>)
        e2 == ExpandFrom(e1, 1, <<"x">>, 1, <<"x", "ã">>)
        e3 == ExpandFrom(e2, 1, <<"x", "a">>, 1, <<"x", "ã">>)
    IN  e3

\* build_admin_prefixes after apply_char_map, in list order, restricted to
\* the prefixes spelled with the model's letters
AdminPrefixes == << <<"x", "a">>, <<"x">> >>

\* the first loop of step 5: strip one prefix followed by a space at the start
RECURSIVE StripLeadingPrefix(_, _)
StripLeadingPrefix(s, k) ==
    IF k > Len(AdminPrefixes) THEN s
    ELSE IF StartsAt(s, 1, AdminPrefixes[k] \o <<" ">>)
         THEN Strip(Drop(s, Len(AdminPrefixes[k]) + 2))
         ELSE StripLeadingPrefix(s, k + 1)

\* re.sub(r'\b<prefix>\s+(?=\w)', '', text)
RECURSIVE RemovePrefixFrom(_, _, _)
RemovePrefixFrom(s, i, prefix) ==
    IF i > Len(s) THEN <<>>
    ELSE LET j  == i + Len(prefix)
             sp == SpaceRun(s, j)
         IN  IF /\ WordStart(s, i) /\ StartsAt(s, i, prefix) /\ sp >= 1
                /\ j + sp <= Len(s) /\ IsWordChar(s[j + sp])
             THEN RemovePrefixFrom(s, j + sp, prefix)
             ELSE <<s[i]>> \o RemovePrefixFrom(s, i + 1, prefix)

\* the second loop of step 5: remove every prefix in mid-text
RECURSIVE RemoveMidPrefixes(_, _)
RemoveMidPrefixes(s, k) ==
    IF k > Len(AdminPrefixes) THEN s
    ELSE RemoveMidPrefixes(RemovePrefixFrom(s, 1, AdminPrefixes[k]), k + 1)


\* build_province_abbreviations: the (abbreviation, full name) pairs in
\* insertion order.  Only the bare initials of a name of at least three
\* tokens are spelled with the model's letters; the tp-prefixed keys and the
\* 'thành phố' keys contain letters no input of the model contains.
RECURSIVE ProvinceAbbreviations(_)
ProvinceAbbreviations(provs) ==
    IF provs = <<>> THEN <<>>
    ELSE LET name_lower == Lower(provs[1].Name)
             tokens     == Split(name_lower)
             initials   == [i \in 1..Len(tokens) |-> tokens[i][1]]
         IN  (IF Len(tokens) >= 2 /\ Len(initials) >= 3
              THEN << <<initials, name_lower>> >> ELSE <<>>)
             \o ProvinceAbbreviations(Tail(provs))

RECURSIVE ApplyAbbreviations(_, _)
ApplyAbbreviations(s, abbrevs) ==
    IF abbrevs = <<>> THEN s
    ELSE ApplyAbbreviations(Replace(s, abbrevs[1][1], abbrevs[1][2]), Tail(abbrevs))

\* the delimiters ',./;:' of step 4
Delimiters == {",", ".", "/"}

\* normalize_text(text, config) with config = NormalizationConfig(provinces)
NormalizeText(text, provs) ==
    LET t1 == Lower(text)
        t2 == ExpandAbbreviations(ApplyAbbreviations(t1, ProvinceAbbreviations(provs)))
        t3 == [i \in 1..Len(t2) |-> FoldChar(t2[i])]
        t4 == DeleteChars(SpaceChars(t3, Delimiters), Punctuation \ {"-"})
        t5 == RemoveMidPrefixes(StripLeadingPrefix(t4, 1), 1)
    IN  CollapseSpaces(t5)


(***************************************************************************)
(* Alias generator (alias_generator.py)                                    *)
(***************************************************************************)

\* the function without the first + last variant
GenerateAliasesNoFirstLast(name) ==
    LET base_name  == DbNormalize(name)
        tokens     == Split(base_name)
        num_tokens == Len(tokens)
        inits      == [i \in 1..num_tokens |-> <<tokens[i][1]>>]
        rest       == Join(Tail(tokens))
    IN  IF num_tokens = 0 THEN {}
        ELSE IF num_tokens = 1 THEN {base_name, Concat(tokens)}
        ELSE {base_name, Concat(tokens), Concat(inits), JoinWith(<<".">>, inits),
              inits[1] \o <<".", " ">> \o rest,
              inits[1] \o <<" ">> \o rest}

\* generate_aliases(original_name, normalizer)
GenerateAliases(name) ==
    LET base_name  == DbNormalize(name)
        tokens     == Split(base_name)
        num_tokens == Len(tokens)
        inits      == [i \in 1..num_tokens |-> <<tokens[i][1]>>]
        rest       == Join(Tail(tokens))
    IN  IF num_tokens = 0 THEN {}
        ELSE IF num_tokens = 1 THEN {base_name, Concat(tokens)}
        ELSE {base_name, Concat(tokens), Concat(inits), JoinWith(<<".">>, inits),
              inits[1] \o <<".", " ">> \o rest,
              inits[1] \o <<" ">> \o rest}
             \cup (IF num_tokens >= 3
                   THEN {tokens[1] \o <<" ">> \o tokens[num_tokens]} ELSE {})

(***************************************************************************)
(* Trie (trie_parser.py).  A trie is the map from the path of a node (the  *)
(* characters from the root) to the node's fields.                         *)
(***************************************************************************)

\* TrieNode.__init__
NewNode == [is_end |-> FALSE, value |-> <<>>]

\* Trie.__init__
EmptyTrie == [p \in {<<>>} |-> NewNode]

Prefixes(w) == {SubSeq(w, 1, k) : k \in 0..Len(w)}

\* Trie.insert
TrieInsert(trie, normalized_word, original_value) ==
    [p \in DOMAIN trie \cup Prefixes(normalized_word) |->
        IF p = normalized_word THEN [is_end |-> TRUE, value |-> original_value]
        ELSE IF p \in DOMAIN trie THEN trie[p] ELSE NewNode]

\* Trie.search
TrieSearch(trie, normalized_word) ==
    IF normalized_word \in DOMAIN trie /\ trie[normalized_word].is_end
    THEN trie[normalized_word].value
    ELSE <<>>

\* the bound min(i + 7, n + 1) of the window loop
WindowLimit == 7

Min(a, b) == IF a < b THEN a ELSE b

Max(a, b) == IF a > b THEN a ELSE b

\* the inner loop of search_in_text without the bound i + 7 on the window end
RECURSIVE SearchWindowsUnlimited(_, _, _, _)
SearchWindowsUnlimited(trie, tokens, i, j) ==
    IF j >= Len(tokens) + 1 THEN <<>>
    ELSE LET result == TrieSearch(trie, Join(SubSeq(tokens, i + 1, j)))
         IN  (IF result # <<>> THEN << <<result, i, j>> >> ELSE <<>>)
             \o SearchWindowsUnlimited(trie, tokens, i, j + 1)

\* the inner loop of search_in_text: windows tokens[i:j], j ascending
RECURSIVE SearchWindows(_, _, _, _)
SearchWindows(trie, tokens, i, j) ==
    IF j >= Min(i + WindowLimit, Len(tokens) + 1) THEN <<>>
    ELSE LET result == TrieSearch(trie, Join(SubSeq(tokens, i + 1, j)))
         IN  (IF result # <<>> THEN << <<result, i, j>> >> ELSE <<>>)
             \o SearchWindows(trie, tokens, i, j + 1)

\* the outer loop of search_in_text: start positions i ascending (0-based)
RECURSIVE SearchStarts(_, _, _)
SearchStarts(trie, tokens, i) ==
    IF i >= Len(tokens) THEN <<>>
    ELSE SearchWindows(trie, tokens, i, i + 1) \o SearchStarts(trie, tokens, i + 1)

\* Trie.search_in_text: the list of (value, start, end) hits
SearchInText(trie, text) == SearchStarts(trie, Split(text), 0)

(***************************************************************************)
(* Hierarchy index and tries of AddressDatabase (address_database.py)      *)
(***************************************************************************)

\* dict.get(key, default)
Get(dict, key, default) == IF key \in DOMAIN dict THEN dict[key] ELSE default

\* the keys of a name-keyed dict in insertion order
RECURSIVE NameKeys(_, _)
NameKeys(records, seen) ==
    IF records = <<>> THEN <<>>
    ELSE IF records[1].Name \in seen THEN NameKeys(Tail(records), seen)
    ELSE <<records[1].Name>> \o NameKeys(Tail(records), seen \cup {records[1].Name})

Range(f) == {f[x] : x \in DOMAIN f}

\* the last record of a given name (dict comprehension: a later entry
\* overwrites an earlier one)
LastNamed(records, n) ==
    records[CHOOSE i \in 1..Len(records) :
                /\ records[i].Name = n
                /\ \A k \in (i + 1)..Len(records) : records[k].Name # n]

\* the last record of a given code
LastCoded(records, c) ==
    records[CHOOSE i \in 1..Len(records) :
                /\ records[i].Code = c
                /\ \A k \in (i + 1)..Len(records) : records[k].Code # c]

\* _build_lookup_maps: province_name_to_code
ProvinceNameToCode(provs) ==
    [n \in {provs[i].Name : i \in 1..Len(provs)} |->
        LastNamed(provs, n).Code]

\* _build_lookup_maps: district_name_to_codes and ward_name_to_codes
NameToCodes(records) ==
    [n \in {records[i].Name : i \in 1..Len(records)} |->
        LET same == SelectSeq(records, LAMBDA r : r.Name = n)
        IN  [i \in 1..Len(same) |-> same[i].Code]]

\* _build_hierarchy_maps: district_to_province
DistrictToProvince(dists) ==
    [c \in {dists[i].Code : i \in 1..Len(dists)} |->
        LastCoded(dists, c).ProvinceCode]

\* _build_hierarchy_maps: ward_to_district
WardToDistrict(wds) ==
    [c \in {wds[i].Code : i \in 1..Len(wds)} |->
        LastCoded(wds, c).DistrictCode]

\* the loop "for alias in aliases: trie.insert(alias, name)"; the aliases of
\* one name are distinct keys, so the set's iteration order does not matter
RECURSIVE InsertAliases(_, _, _)
InsertAliases(trie, aliases, name) ==
    IF aliases = {} THEN trie
    ELSE LET alias == CHOOSE a \in aliases : TRUE
         IN  InsertAliases(TrieInsert(trie, alias, name), aliases \ {alias}, name)

\* _build_tries for one level; the district and ward loops strip the name
RECURSIVE BuildTrie(_, _, _)
BuildTrie(trie, records, strip) ==
    IF records = <<>> THEN trie
    ELSE LET name == IF strip THEN Strip(records[1].Name) ELSE records[1].Name
         IN  BuildTrie(InsertAliases(trie, GenerateAliases(name), name), Tail(records), strip)

\* _build_lcs_candidates: (name, tokens) for the keys of a name map
Candidates(names) ==
    [i \in 1..Len(names) |-> [name |-> names[i], tokens |-> Split(DbNormalize(names[i]))]]

\* AddressDatabase.__init__
BuildDatabase(provs, dists, wds) ==
    [provinces |-> provs, districts |-> dists, wards |-> wds,
     province_name_to_code  |-> ProvinceNameToCode(provs),
     district_name_to_codes |-> NameToCodes(dists),
     ward_name_to_codes     |-> NameToCodes(wds),
     district_to_province   |-> DistrictToProvince(dists),
     ward_to_district       |-> WardToDistrict(wds),
     province_trie |-> BuildTrie(EmptyTrie, provs, FALSE),
     district_trie |-> BuildTrie(EmptyTrie, dists, TRUE),
     ward_trie     |-> BuildTrie(EmptyTrie, wds, TRUE),
     province_candidates |-> Candidates(NameKeys(provs, {})),
     district_candidates |-> Candidates(NameKeys(dists, {})),
     ward_candidates     |-> Candidates(NameKeys(wds, {}))]

\* _find_valid_district_code without the check of the parent province: the
\* first code of the district name
FindValidDistrictCodeAnyProvince(d, district_name, province_name) ==
    LET province_code  == Get(d.province_name_to_code, province_name, "")
        district_codes == Get(d.district_name_to_codes, district_name, <<>>)
    IN  IF province_code = "" THEN ""
        ELSE IF district_codes = <<>> THEN ""
        ELSE district_codes[1]

\* _find_valid_district_code
FindValidDistrictCode(d, district_name, province_name) ==
    LET province_code  == Get(d.province_name_to_code, province_name, "")
        district_codes == Get(d.district_name_to_codes, district_name, <<>>)
        ok == {i \in 1..Len(district_codes) :
                  Get(d.district_to_province, district_codes[i], "") = province_code}
    IN  IF province_code = "" THEN ""
        ELSE IF ok = {} THEN ""
        ELSE district_codes[CHOOSE i \in ok : \A k \in ok : i <= k]

\* _find_valid_ward_code without the check of the parent district: the first
\* code of the ward name
FindValidWardCodeAnyDistrict(d, ward_name, district_name, province_name) ==
    LET ward_codes == Get(d.ward_name_to_codes, ward_name, <<>>)
    IN  IF ward_codes = <<>> THEN "" ELSE ward_codes[1]

\* _find_valid_ward_code
FindValidWardCode(d, ward_name, district_name, province_name) ==
    LET district_code == FindValidDistrictCode(d, district_name, province_name)
        ward_codes    == Get(d.ward_name_to_codes, ward_name, <<>>)
        ok == {i \in 1..Len(ward_codes) :
                  Get(d.ward_to_district, ward_codes[i], "") = district_code}
    IN  IF district_code = "" THEN ""
        ELSE IF ok = {} THEN ""
        ELSE ward_codes[CHOOSE i \in ok : \A k \in ok : i <= k]

\* get_districts_in_province
GetDistrictsInProvince(d, province_name) ==
    LET province_code == Get(d.province_name_to_code, province_name, "")
    IN  IF province_code = "" THEN <<>>
        ELSE SelectSeq(d.district_candidates,
                 LAMBDA c : \E code \in Range(d.district_name_to_codes[c.name]) :
                                Get(d.district_to_province, code, "") = province_code)

\* get_wards_in_district
GetWardsInDistrict(d, district_name, province_name) ==
    LET district_code == FindValidDistrictCode(d, district_name, province_name)
    IN  IF district_code = "" THEN <<>>
        ELSE SelectSeq(d.ward_candidates,
                 LAMBDA c : \E code \in Range(d.ward_name_to_codes[c.name]) :
                                Get(d.ward_to_district, code, "") = district_code)


(***************************************************************************)
(* LCS matcher (lcs_matcher.py)                                            *)
(***************************************************************************)

\* LCSMatcher.compute_lcs_length: the DP table dp[i][j]
ComputeLcsLength(seq1, seq2) ==
    LET n == Len(seq1)
        m == Len(seq2)
        dp[i \in 0..n, j \in 0..m] ==
            IF i = 0 \/ j = 0 THEN 0
            ELSE IF seq1[i] = seq2[j] THEN dp[i - 1, j - 1] + 1
            ELSE Max(dp[i - 1, j], dp[i, j - 1])
    IN  dp[n, m]

\* LCSMatcher.compute_lcs_similarity as the fraction num / den (0 / 1 for an
\* empty sequence)
ComputeLcsSimilarity(input_tokens, candidate_tokens) ==
    IF input_tokens = <<>> \/ candidate_tokens = <<>>
    THEN [num |-> 0, den |-> 1]
    ELSE [num |-> 2 * ComputeLcsLength(input_tokens, candidate_tokens),
          den |-> Len(input_tokens) + Len(candidate_tokens)]

\* LCSMatcher(threshold=0.4), as ThresholdNum / ThresholdDen
ThresholdNum == 4

ThresholdDen == 10

FracGreater(a, b) == a.num * b.den > b.num * a.den

FracAtLeastThreshold(a) == a.num * ThresholdDen >= ThresholdNum * a.den

\* the loop of LCSMatcher.find_best_match from candidate k on
RECURSIVE LcsScan(_, _, _, _, _)
LcsScan(input_tokens, candidates, k, best_match, best_score) ==
    IF k > Len(candidates) THEN best_match
    ELSE LET score == ComputeLcsSimilarity(input_tokens, candidates[k].tokens)
         IN  IF FracGreater(score, best_score) /\ FracAtLeastThreshold(score)
             THEN LcsScan(input_tokens, candidates, k + 1, candidates[k].name, score)
             ELSE LcsScan(input_tokens, candidates, k + 1, best_match, best_score)

\* LCSMatcher.find_best_match: the entity_name of the match, <<>> for None
LcsFindBestMatch(input_tokens, candidates) ==
    LcsScan(input_tokens, candidates, 1, <<>>, [num |-> 0, den |-> 1])

(***************************************************************************)
(* Edit-distance matcher (edit_distance_matcher.py)                        *)
(***************************************************************************)

\* the row prev before the main loop; rows are indexed 0..m, stored at 1..m+1
InitialPrev(m, max_k) == [j \in 1..(m + 1) |-> IF j - 1 <= Min(m, max_k) THEN j - 1 ELSE max_k + 1]

\* the inner loop over the band j = start..end of row i; curr carries the
\* values the buffer held before the row (they are read outside the band)
RECURSIVE FillRow(_, _, _, _, _, _, _)
FillRow(s, t, i, j, end, prev, curr) ==
    IF j > end THEN curr
    ELSE LET cell == IF s[i] = t[j] THEN prev[j]
                     ELSE 1 + Min(prev[j], Min(prev[j + 1], curr[j]))
         IN  FillRow(s, t, i, j + 1, end, prev, [curr EXCEPT ![j + 1] = cell])

RowMin(row, start, end) ==
    CHOOSE v \in {row[j + 1] : j \in start..end} :
        \A w \in {row[j + 1] : j \in start..end} : v <= w

\* the main loop of bounded_edit_distance from row i on
RECURSIVE EditRows(_, _, _, _, _, _)
EditRows(s, t, max_k, i, prev, curr) ==
    IF i > Len(s) THEN prev[Len(t) + 1]
    ELSE LET start == Max(1, i - max_k)
             end   == Min(Len(t), i + max_k)
             row   == FillRow(s, t, i, start, end, prev, [curr EXCEPT ![1] = i])
         IN  IF start > end THEN max_k + 1
             ELSE IF RowMin(row, start, end) > max_k THEN max_k + 1
             ELSE EditRows(s, t, max_k, i + 1, row, prev)

Abs(x) == IF x < 0 THEN -x ELSE x

\* bounded_edit_distance(s, t, max_k)
BoundedEditDistance(s, t, max_k) ==
    IF Abs(Len(s) - Len(t)) > max_k THEN max_k + 1
    ELSE EditRows(s, t, max_k, 1, InitialPrev(Len(t), max_k), [j \in 1..(Len(t) + 1) |-> 0])

\* EditDistanceMatcher(max_distance=2)
MaxDistance == 2

\* the loop of EditDistanceMatcher.find_best_match from candidate k on;
\* best_distance = -1 stands for float('inf')
RECURSIVE EditScan(_, _, _, _, _)
EditScan(input_phrase, candidates, k, best_match, best_distance) ==
    IF k > Len(candidates) THEN best_match
    ELSE LET distance == BoundedEditDistance(input_phrase, Join(candidates[k].tokens), MaxDistance)
         IN  IF distance <= MaxDistance /\ (best_distance < 0 \/ distance < best_distance)
             THEN EditScan(input_phrase, candidates, k + 1, candidates[k].name, distance)
             ELSE EditScan(input_phrase, candidates, k + 1, best_match, best_distance)

\* EditDistanceMatcher.find_best_match: the entity_name of the match
EditFindBestMatch(input_tokens, candidates) ==
    EditScan(Join(input_tokens), candidates, 1, <<>>, -1)


(***************************************************************************)
(* Three-tier parser (address_parser_v3.py)                                *)
(***************************************************************************)

\* ParsedAddress(); confidence is in tenths (10 stands for 1.0)
EmptyAddress ==
    [ward |-> <<>>, district |-> <<>>, province |-> <<>>,
     ward_code |-> "", district_code |-> "", province_code |-> "",
     confidence |-> 0, valid |-> FALSE, match_method |-> "none"]

\* the sort key (x[2] - x[1], x[2]) of _select_best_match
KeyLess(a, b) ==
    \/ a[3] - a[2] < b[3] - b[2]
    \/ a[3] - a[2] = b[3] - b[2] /\ a[3] < b[3]

\* the first hit of the scan, whatever its span
FirstHit(matches) == matches[1]

\* sorted(matches, key=..., reverse=True)[0]: the first hit of greatest key
\* (the sort is stable), for a non-empty list
BestHit(matches) ==
    matches[CHOOSE k \in 1..Len(matches) :
                /\ \A m \in 1..Len(matches) : ~KeyLess(matches[k], matches[m])
                /\ \A m \in 1..(k - 1) : KeyLess(matches[m], matches[k])]

\* _select_best_match
SelectBestMatch(matches) == IF matches = <<>> THEN <<>> ELSE BestHit(matches)[1]

\* the loop "for match in matches: if match[0] == name: span = ...; break"
SpanOf(matches, name) ==
    LET hits == {k \in 1..Len(matches) : matches[k][1] = name}
    IN  IF name = <<>> \/ hits = {} THEN <<>>
        ELSE LET k == CHOOSE k \in hits : \A m \in hits : k <= m
             IN  <<matches[k][2], matches[k][3]>>

\* the masking token "___"
MaskToken == <<"_", "_", "_">>

\* masked_tokens[i] = "___" for i in range(span[0], span[1])
Mask(tokens, span) ==
    IF span = <<>> THEN tokens
    ELSE [i \in 1..Len(tokens) |->
             IF span[1] <= i - 1 /\ i - 1 < span[2] THEN MaskToken ELSE tokens[i]]

\* the "Add codes" block shared by the three tiers
AddCodes(d, r) ==
    [r EXCEPT
        !.province_code = IF r.province # <<>>
                          THEN Get(d.province_name_to_code, r.province, "") ELSE "",
        !.district_code = IF r.district # <<>> /\ r.province # <<>>
                          THEN FindValidDistrictCode(d, r.district, r.province) ELSE "",
        !.ward_code     = IF r.ward # <<>> /\ r.district # <<>> /\ r.province # <<>>
                          THEN FindValidWardCode(d, r.ward, r.district, r.province) ELSE ""]

\* _try_trie_match: the result and the locals of the three scans
TryTrieMatch(d, normalized_text) ==
    LET tokens           == Split(normalized_text)
        province_matches == SearchInText(d.province_trie, normalized_text)
        province         == SelectBestMatch(province_matches)
        province_span    == SpanOf(province_matches, province)
        district_text    == IF province_span # <<>>
                            THEN Join(Mask(tokens, province_span)) ELSE normalized_text
        district_matches == SearchInText(d.district_trie, district_text)
        district         == SelectBestMatch(district_matches)
        district_span    == SpanOf(district_matches, district)
        ward_text        == IF province_span # <<>> \/ district_span # <<>>
                            THEN Join(Mask(Mask(tokens, province_span), district_span))
                            ELSE normalized_text
        ward_matches     == SearchInText(d.ward_trie, ward_text)
        ward             == SelectBestMatch(ward_matches)
    IN  [result |-> AddCodes(d, [EmptyAddress EXCEPT !.province = province,
                                                      !.district = district,
                                                      !.ward = ward]),
         province_matches |-> province_matches, province_span |-> province_span,
         district_matches |-> district_matches, district_span |-> district_span,
         ward_matches |-> ward_matches]

\* self.lcs_matcher.find_best_match in _try_lcs_match, and
\* self.edit_matcher.find_best_match in _try_edit_match
FindBestMatch(tier, input_tokens, candidates) ==
    IF tier = "lcs" THEN LcsFindBestMatch(input_tokens, candidates)
    ELSE EditFindBestMatch(input_tokens, candidates)

\* "x_match if x_match else the component kept from the previous tier"
MatchOr(m, kept) == IF m # <<>> THEN m ELSE kept

\* CASE 1, ward step: searched only when a province and a district are set
Case1Ward(d, input_tokens, tier, province, district, ward0) ==
    <<province, district,
      IF province # <<>> /\ district # <<>>
      THEN MatchOr(FindBestMatch(tier, input_tokens,
                                 GetWardsInDistrict(d, district, province)), ward0)
      ELSE ward0>>

\* CASE 1, district step: searched only when the province search matched
Case1District(d, input_tokens, tier, province, district0, ward0) ==
    Case1Ward(d, input_tokens, tier, province,
              IF province # <<>>
              THEN MatchOr(FindBestMatch(tier, input_tokens,
                                         GetDistrictsInProvince(d, province)), district0)
              ELSE district0,
              ward0)

\* CASE 1: no province from the previous tier
Case1(d, input_tokens, tier, district0, ward0) ==
    Case1District(d, input_tokens, tier,
                  FindBestMatch(tier, input_tokens, d.province_candidates),
                  district0, ward0)

\* CASE 2, ward step: searched only when the district search matched
Case2Ward(d, input_tokens, tier, province0, district, ward0) ==
    <<province0, district,
      IF district # <<>>
      THEN MatchOr(FindBestMatch(tier, input_tokens,
                                 GetWardsInDistrict(d, district, province0)), ward0)
      ELSE ward0>>

\* CASE 2: province but no district
Case2(d, input_tokens, tier, province0, ward0) ==
    Case2Ward(d, input_tokens, tier, province0,
              FindBestMatch(tier, input_tokens, GetDistrictsInProvince(d, province0)),
              ward0)

\* CASE 3: province and district but no ward
Case3(d, input_tokens, tier, province0, district0) ==
    <<province0, district0,
      FindBestMatch(tier, input_tokens, GetWardsInDistrict(d, district0, province0))>>

\* the names chosen from the components of the previous tier that carry a code
FallbackNames(d, input_tokens, tier, province0, district0, ward0) ==
    IF province0 = <<>> THEN Case1(d, input_tokens, tier, district0, ward0)
    ELSE IF district0 = <<>> THEN Case2(d, input_tokens, tier, province0, ward0)
    ELSE IF ward0 = <<>> THEN Case3(d, input_tokens, tier, province0, district0)
    ELSE <<province0, district0, ward0>>

\* a name and its three codes
WithCodes(d, names) ==
    AddCodes(d, [EmptyAddress EXCEPT !.province = names[1],
                                      !.district = names[2],
                                      !.ward = names[3]])

\* the body shared by _try_lcs_match and _try_edit_match, which differ in the
\* matcher they call
TryFallbackMatch(d, input_tokens, prev, tier) ==
    WithCodes(d, FallbackNames(d, input_tokens, tier, prev.province,
                  IF prev.district # <<>> /\ prev.district_code = ""
                  THEN <<>> ELSE prev.district,
                  IF prev.ward # <<>> /\ prev.ward_code = "" THEN <<>> ELSE prev.ward))

\* _try_lcs_match
TryLcsMatch(d, input_tokens, trie_result) ==
    TryFallbackMatch(d, input_tokens, trie_result, "lcs")

\* _try_edit_match
TryEditMatch(d, input_tokens, lcs_result) ==
    TryFallbackMatch(d, input_tokens, lcs_result, "edit_distance")

\* _is_valid_result without the "Clear invalid district" block
IsValidResultKeepDistrict(r) ==
    IF r.province = <<>> THEN [ok |-> FALSE, result |-> r]
    ELSE IF r.province_code = "" THEN [ok |-> FALSE, result |-> r]
    ELSE LET r2 == IF r.ward # <<>> /\ r.ward_code = ""
                   THEN [r EXCEPT !.ward = <<>>, !.ward_code = ""] ELSE r
         IN  [ok |-> TRUE, result |-> [r2 EXCEPT !.valid = TRUE]]

\* _is_valid_result: the returned flag and the result object after the call
IsValidResult(r) ==
    IF r.province = <<>> THEN [ok |-> FALSE, result |-> r]
    ELSE IF r.province_code = "" THEN [ok |-> FALSE, result |-> r]
    ELSE LET r1 == IF r.district # <<>> /\ r.district_code = ""
                   THEN [r EXCEPT !.district = <<>>, !.district_code = ""] ELSE r
             r2 == IF r1.ward # <<>> /\ r1.ward_code = ""
                   THEN [r1 EXCEPT !.ward = <<>>, !.ward_code = ""] ELSE r1
         IN  [ok |-> TRUE, result |-> [r2 EXCEPT !.valid = TRUE]]

\* the confidence of an LCS-tier result, in tenths
LcsConfidence(r) == IF r.ward # <<>> THEN 7 ELSE IF r.district # <<>> THEN 6 ELSE 5

\* the edit-distance tier scoring its result with the LCS tier's values
EditConfidenceAsLcs(r) == IF r.ward # <<>> THEN 7 ELSE IF r.district # <<>> THEN 6 ELSE 5

\* the confidence of an edit-distance-tier result, in tenths
EditConfidence(r) == IF r.ward # <<>> THEN 5 ELSE IF r.district # <<>> THEN 4 ELSE 3


(***************************************************************************)
(* Reference data and inputs of the model                                  *)
(***************************************************************************)

\* the display names of the reference data
NameAb == <<"A", "b">>

NameA_b == <<"A", " ", "b">>

NameBa == <<"B", "à">>

NameB == <<"B">>

\* the names of the two provinces (Provinces.json, codes "1" and "2")
ProvinceNamePairs == {<<NameA_b, NameBa>>, <<NameAb, NameB>>}

\* the names a district or a ward can have
DistrictNames == {NameAb, NameB}

WardNames == {NameAb, NameB}

ProvinceCodes == {"1", "2"}

\* the reference hierarchies: two provinces, a district of the first, a
\* district of either, and one ward of the first district
Hierarchies ==
    {[provinces |-> <<[Name |-> pn[1], Code |-> "1"], [Name |-> pn[2], Code |-> "2"]>>,
      districts |-> <<[Name |-> dn1, Code |-> "11", ProvinceCode |-> "1"],
                      [Name |-> dn2, Code |-> "12", ProvinceCode |-> dp2]>>,
      wards     |-> <<[Name |-> wn, Code |-> "101", DistrictCode |-> "11"]>>] :
        pn \in ProvinceNamePairs, dn1 \in DistrictNames, dn2 \in DistrictNames,
        dp2 \in ProvinceCodes, wn \in WardNames}

\* the pieces an input text is made of
Pieces == {<<"a", " ">>, <<"b", " ">>, <<"A", "b", " ">>, <<"B", "à", " ">>,
           <<"x", " ">>, <<".">>, <<" ">>}

\* the greatest number of pieces of an input
MaxPieces == 3

\* the input texts: the concatenations of at most MaxPieces pieces
Inputs == UNION {{Concat(ps) : ps \in [1..n -> Pieces]} : n \in 0..MaxPieces}

(***************************************************************************)
(* State                                                                   *)
(***************************************************************************)

VARIABLES
    db,            \* the AddressDatabase built by AddressParser.__init__
    pc,            \* position of the current parse call
    text,          \* the argument of the current parse call
    normalized,    \* the local normalized of parse
    input_tokens,  \* the local input_tokens of parse
    trie_run,      \* the locals of _try_trie_match at its return
    trie_result,   \* the local trie_result of parse
    lcs_result,    \* the local lcs_result of parse
    edit_result,   \* the local edit_result of parse
    tiers,         \* the tiers run by the current call, in order
    found,         \* what each of these tiers returned, before _is_valid_result
    result,        \* the value returned by parse
    probe          \* a component used on its own: its state, the arguments of
                   \* the last call and what the call returned

vars == <<db, pc, text, normalized, input_tokens, trie_run, trie_result,
          lcs_result, edit_result, tiers, found, result, probe>>

NoTrieRun ==
    [result |-> EmptyAddress,
     province_matches |-> <<>>, province_span |-> <<>>,
     district_matches |-> <<>>, district_span |-> <<>>, ward_matches |-> <<>>]

NoProbe == [s |-> <<>>, t |-> <<>>, max_k |-> 0, distance |-> -1]

\* AddressParser.__init__
Init ==
    /\ \E h \in Hierarchies : db = BuildDatabase(h.provinces, h.districts, h.wards)
    /\ pc = "idle"
    /\ text = <<>>
    /\ normalized = <<>>
    /\ input_tokens = <<>>
    /\ trie_run = NoTrieRun
    /\ trie_result = EmptyAddress
    /\ lcs_result = EmptyAddress
    /\ edit_result = EmptyAddress
    /\ tiers = <<>>
    /\ found = <<>>
    /\ result = EmptyAddress
    /\ probe = NoProbe

\* self.db.norm_config: the NormalizationConfig of the database's provinces,
\* from which normalize_text derives the province abbreviations
NormConfig(d) == d.provinces

\* "if not text or not text.strip()"
IsBlank(t) == t = <<>> \/ Strip(t) = <<>>

\* parse, lines 99-110: the blank check and the normalization
ParseCall(t) ==
    /\ pc = "idle"
    /\ text' = t
    /\ trie_run' = NoTrieRun
    /\ trie_result' = EmptyAddress
    /\ lcs_result' = EmptyAddress
    /\ edit_result' = EmptyAddress
    /\ tiers' = <<>>
    /\ found' = <<>>
    /\ result' = EmptyAddress
    /\ IF IsBlank(t)
       THEN /\ pc' = "done"
            /\ normalized' = <<>>
            /\ input_tokens' = <<>>
       ELSE /\ pc' = "tier1"
            /\ normalized' = NormalizeText(t, NormConfig(db))
            /\ input_tokens' = Split(NormalizeText(t, NormConfig(db)))
    /\ UNCHANGED <<db, probe>>

\* tier 1 without the return at line 126: parse goes on to tier 2 whatever
\* the trie tier found
Tier1FallThrough ==
    /\ pc = "tier1"
    /\ LET run == TryTrieMatch(db, normalized)
           v   == IsValidResult(run.result)
       IN  /\ trie_run' = run
           /\ tiers' = Append(tiers, "trie")
           /\ found' = Append(found, run.result)
           /\ trie_result' = v.result
           /\ result' = result
           /\ pc' = "tier2"
    /\ UNCHANGED <<db, text, normalized, input_tokens, lcs_result, edit_result, probe>>

\* parse, lines 112-126: tier 1
Tier1 ==
    /\ pc = "tier1"
    /\ LET run == TryTrieMatch(db, normalized)
           v   == IsValidResult(run.result)
       IN  /\ trie_run' = run
           /\ tiers' = Append(tiers, "trie")
           /\ found' = Append(found, run.result)
           /\ IF v.ok
              THEN /\ trie_result' = [v.result EXCEPT !.match_method = "trie",
                                                      !.confidence = 10]
                   /\ result' = trie_result'
                   /\ pc' = "done"
              ELSE /\ trie_result' = v.result
                   /\ result' = result
                   /\ pc' = "tier2"
    /\ UNCHANGED <<db, text, normalized, input_tokens, lcs_result, edit_result, probe>>

\* parse, lines 128-144: tier 2
Tier2 ==
    /\ pc = "tier2"
    /\ LET raw == TryLcsMatch(db, input_tokens, trie_result)
           v   == IsValidResult(raw)
       IN  /\ tiers' = Append(tiers, "lcs")
           /\ found' = Append(found, raw)
           /\ IF v.ok
              THEN /\ lcs_result' = [v.result EXCEPT !.match_method = "lcs",
                                                     !.confidence = LcsConfidence(v.result)]
                   /\ result' = lcs_result'
                   /\ pc' = "done"
              ELSE /\ lcs_result' = v.result
                   /\ result' = result
                   /\ pc' = "tier3"
    /\ UNCHANGED <<db, text, normalized, input_tokens, trie_run, trie_result,
                   edit_result, probe>>

\* parse, lines 146-164: tier 3 and the empty result
Tier3 ==
    /\ pc = "tier3"
    /\ LET raw == TryEditMatch(db, input_tokens, lcs_result)
           v   == IsValidResult(raw)
       IN  /\ tiers' = Append(tiers, "edit_distance")
           /\ found' = Append(found, raw)
           /\ IF v.ok
              THEN /\ edit_result' = [v.result EXCEPT
                                         !.match_method = "edit_distance",
                                         !.confidence = EditConfidence(v.result)]
                   /\ result' = edit_result'
              ELSE /\ edit_result' = v.result
                   /\ result' = EmptyAddress
           /\ pc' = "done"
    /\ UNCHANGED <<db, text, normalized, input_tokens, trie_run, trie_result,
                   lcs_result, probe>>

\* parse returns result: its locals go out of scope
Return ==
    /\ pc = "done"
    /\ pc' = "idle"
    /\ text' = <<>>
    /\ normalized' = <<>>
    /\ input_tokens' = <<>>
    /\ trie_run' = NoTrieRun
    /\ trie_result' = EmptyAddress
    /\ lcs_result' = EmptyAddress
    /\ edit_result' = EmptyAddress
    /\ tiers' = <<>>
    /\ found' = <<>>
    /\ result' = EmptyAddress
    /\ UNCHANGED <<db, probe>>

Next ==
    \/ \E t \in Inputs : ParseCall(t)
    \/ Tier1
    \/ Tier2
    \/ Tier3
    \/ Return

Spec == Init /\ [][Next]_vars

(***************************************************************************)
(* bounded_edit_distance called on its own                                 *)
(***************************************************************************)

\* the greatest length of an argument string
MaxEditLen == 3

\* the greatest bound max_k of a call
MaxK == 2

EditChars == {"a", "b"}

\* the argument strings: the strings over EditChars of at most MaxEditLen
EditStrings == UNION {[1..n -> EditChars] : n \in 0..MaxEditLen}

\* a parser whose caller is about to call bounded_edit_distance(s, t, max_k)
InitEdit ==
    /\ db = BuildDatabase(<<>>, <<>>, <<>>)
    /\ pc = "edit_call"
    /\ text = <<>>
    /\ normalized = <<>>
    /\ input_tokens = <<>>
    /\ trie_run = NoTrieRun
    /\ trie_result = EmptyAddress
    /\ lcs_result = EmptyAddress
    /\ edit_result = EmptyAddress
    /\ tiers = <<>>
    /\ found = <<>>
    /\ result = EmptyAddress
    /\ \E s \in EditStrings, t \in EditStrings, k \in 0..MaxK :
           probe = [s |-> s, t |-> t, max_k |-> k, distance |-> -1]

\* the call bounded_edit_distance(s, t, max_k) and its return
BoundedEditDistanceCall ==
    /\ pc = "edit_call"
    /\ probe' = [probe EXCEPT !.distance = BoundedEditDistance(probe.s, probe.t, probe.max_k)]
    /\ pc' = "edit_done"
    /\ UNCHANGED <<db, text, normalized, input_tokens, trie_run, trie_result,
                   lcs_result, edit_result, tiers, found, result>>

NextEdit == BoundedEditDistanceCall

SpecEdit == InitEdit /\ [][NextEdit]_vars


(***************************************************************************)
(* parse called on a display name or a text, then on the text made of the  *)
(* names it returned                                                       *)
(***************************************************************************)

\* the greatest number of pieces of the first input
MaxFirstPieces == 2

\* the first inputs: the display names, and the texts of a few pieces
FirstInputs ==
    {NameAb, NameA_b, NameBa, NameB}
        \cup UNION {{Concat(ps) : ps \in [1..n -> Pieces]} : n \in 0..MaxFirstPieces}

\* the names present in r, in the order ward, district, province
PresentNames(r) ==
    (IF r.ward # <<>> THEN <<r.ward>> ELSE <<>>)
        \o (IF r.district # <<>> THEN <<r.district>> ELSE <<>>)
        \o (IF r.province # <<>> THEN <<r.province>> ELSE <<>>)

\* the text "ward, district, province" of the names present in r
NamesText(r) == JoinWith(<<",", " ">>, PresentNames(r))

\* the caller of parse keeps the text and the result of a first call that
\* returned some name, and calls parse on the text made of the names
ParseAgain ==
    /\ pc = "done"
    /\ probe = NoProbe
    /\ PresentNames(result) # <<>>
    /\ probe' = [x |-> text, first |-> result]
    /\ text' = NamesText(result)
    /\ trie_run' = NoTrieRun
    /\ trie_result' = EmptyAddress
    /\ lcs_result' = EmptyAddress
    /\ edit_result' = EmptyAddress
    /\ tiers' = <<>>
    /\ found' = <<>>
    /\ result' = EmptyAddress
    /\ IF IsBlank(NamesText(result))
       THEN /\ pc' = "done"
            /\ normalized' = <<>>
            /\ input_tokens' = <<>>
       ELSE /\ pc' = "tier1"
            /\ normalized' = NormalizeText(NamesText(result), NormConfig(db))
            /\ input_tokens' = Split(NormalizeText(NamesText(result), NormConfig(db)))
    /\ UNCHANGED db

NextRoundTrip ==
    \/ \E t \in FirstInputs : ParseCall(t)
    \/ Tier1
    \/ Tier2
    \/ Tier3
    \/ ParseAgain

SpecRoundTrip == Init /\ [][NextRoundTrip]_vars

(***************************************************************************)
(* Components used on their own: no parse call is in progress              *)
(***************************************************************************)

\* the variables of parse
parseVars == <<db, text, normalized, input_tokens, trie_run, trie_result,
               lcs_result, edit_result, tiers, found, result>>

\* a parser over empty reference data with no call of parse in progress
NoParse ==
    /\ db = BuildDatabase(<<>>, <<>>, <<>>)
    /\ text = <<>>
    /\ normalized = <<>>
    /\ input_tokens = <<>>
    /\ trie_run = NoTrieRun
    /\ trie_result = EmptyAddress
    /\ lcs_result = EmptyAddress
    /\ edit_result = EmptyAddress
    /\ tiers = <<>>
    /\ found = <<>>
    /\ result = EmptyAddress

(***************************************************************************)
(* A Trie used on its own: insert, search and search_in_text               *)
(***************************************************************************)

\* the greatest number of insertions into the trie
MaxInserts == 2

\* the greatest number of tokens of a key
MaxKeyTokens == 7

\* the greatest number of tokens of a scanned text
MaxTextTokens == 8

\* n times the token "a", joined by single spaces
Repeated(n) == Join([i \in 1..n |-> <<"a">>])

\* the keys inserted: one token, two tokens, and 6 to MaxKeyTokens tokens
TrieKeys == {<<"a">>, <<"a", " ", "b">>} \cup {Repeated(n) : n \in 6..MaxKeyTokens}

\* the values stored
TrieValues == {<<"X">>, <<"Y">>}

\* the texts scanned: up to MaxTextTokens times "a", the texts of at most two
\* tokens over a and b, and a text with runs of whitespace
TrieTexts ==
    {Repeated(n) : n \in 0..MaxTextTokens}
        \cup {Join(ts) : ts \in UNION {[1..n -> {<<"a">>, <<"b">>}] : n \in 1..2}}
        \cup {<<" ", "a", " ", " ", "b", " ", "a", " ">>}

\* Trie(): an empty trie, nothing called yet
InitTrie ==
    /\ NoParse
    /\ pc = "trie"
    /\ probe = [trie |-> EmptyTrie, inserted |-> <<>>, call |-> "new",
                arg |-> <<>>, ret |-> <<>>]

\* trie.insert(key, value)
TrieInsertCall(key, value) ==
    /\ pc = "trie"
    /\ Len(probe.inserted) < MaxInserts
    /\ probe' = [trie |-> TrieInsert(probe.trie, key, value),
                 inserted |-> Append(probe.inserted, <<key, value>>),
                 call |-> "insert", arg |-> key, ret |-> <<>>]
    /\ UNCHANGED <<pc, parseVars>>

\* trie.search(key)
TrieSearchCall(key) ==
    /\ pc = "trie"
    /\ probe' = [probe EXCEPT !.call = "search", !.arg = key,
                              !.ret = TrieSearch(probe.trie, key)]
    /\ UNCHANGED <<pc, parseVars>>

\* trie.search_in_text(t)
SearchInTextCall(t) ==
    /\ pc = "trie"
    /\ probe' = [probe EXCEPT !.call = "scan", !.arg = t,
                              !.ret = SearchInText(probe.trie, t)]
    /\ UNCHANGED <<pc, parseVars>>

NextTrie ==
    \/ \E key \in TrieKeys, value \in TrieValues : TrieInsertCall(key, value)
    \/ \E key \in TrieKeys : TrieSearchCall(key)
    \/ \E t \in TrieTexts : SearchInTextCall(t)

SpecTrie == InitTrie /\ [][NextTrie]_vars

(***************************************************************************)
(* The trie of one level built from reference data, then scanned           *)
(***************************************************************************)

\* the greatest number of records of the level
MaxNames == 3

\* the display names a record of the level can have
LevelNames == {NameAb, NameA_b, NameBa, NameB}

Levels == {"province", "district", "ward"}

\* the records of one level: at most MaxNames names, in file order
LevelRecords ==
    UNION {{[i \in 1..n |-> [Name |-> ns[i]]] : ns \in [1..n -> LevelNames]} :
               n \in 0..MaxNames}

\* the records of one level are loaded, its trie is not built yet
InitBuild ==
    /\ NoParse
    /\ pc = "loaded"
    /\ \E level \in Levels, records \in LevelRecords :
           probe = [level |-> level, records |-> records, trie |-> EmptyTrie,
                    arg |-> <<>>, ret |-> <<>>]

\* _build_tries, for the level of probe
BuildTriesCall ==
    /\ pc = "loaded"
    /\ probe' = [probe EXCEPT
                    !.trie = BuildTrie(EmptyTrie, probe.records, probe.level # "province")]
    /\ pc' = "built"
    /\ UNCHANGED parseVars

\* trie.search_in_text(normalizer.normalize(name, aggressive=True)) for the
\* display name of the i-th record
ScanNameCall(i) ==
    /\ pc \in {"built", "scanned"}
    /\ i \in 1..Len(probe.records)
    /\ probe' = [probe EXCEPT
                    !.arg = probe.records[i].Name,
                    !.ret = SearchInText(probe.trie, DbNormalize(probe.records[i].Name))]
    /\ pc' = "scanned"
    /\ UNCHANGED parseVars

NextBuild ==
    \/ BuildTriesCall
    \/ \E i \in 1..MaxNames : ScanNameCall(i)

SpecBuild == InitBuild /\ [][NextBuild]_vars

(***************************************************************************)
(* find_best_match of the two fallback matchers called on its own          *)
(***************************************************************************)

\* the greatest number of tokens of the input
MaxInputTokens == 2

\* the greatest number of tokens of a candidate
MaxCandidateTokens == 4

MatchTokens == {<<"a">>, <<"b">>}

\* the token sequences of at most n tokens
TokenSeqs(n) == UNION {[1..k -> MatchTokens] : k \in 0..n}

\* the entity names of the candidates, by position in the list
CandidateNames == <<<<"P">>, <<"Q">>>>

\* the candidate lists: no, one or two (entity_name, entity_tokens) pairs
CandidateLists ==
    {<<>>}
        \cup {<<[name |-> CandidateNames[1], tokens |-> c]>> :
                  c \in TokenSeqs(MaxCandidateTokens)}
        \cup {<<[name |-> CandidateNames[1], tokens |-> c[1]],
                [name |-> CandidateNames[2], tokens |-> c[2]]>> :
                  c \in TokenSeqs(MaxCandidateTokens) \X TokenSeqs(MaxCandidateTokens)}

\* a caller about to call find_best_match(input_tokens, candidates, ...)
InitMatch ==
    /\ NoParse
    /\ pc = "match_call"
    /\ \E tokens \in TokenSeqs(MaxInputTokens), candidates \in CandidateLists :
           probe = [input_tokens |-> tokens, candidates |-> candidates,
                    call |-> "none", ret |-> <<>>]

\* lcs_matcher.find_best_match(input_tokens, candidates, entity_type)
LcsFindBestMatchCall ==
    /\ pc = "match_call"
    /\ probe' = [probe EXCEPT
                    !.call = "lcs",
                    !.ret = LcsFindBestMatch(probe.input_tokens, probe.candidates)]
    /\ pc' = "matched"
    /\ UNCHANGED parseVars

\* edit_matcher.find_best_match(input_tokens, candidates, entity_type)
EditFindBestMatchCall ==
    /\ pc = "match_call"
    /\ probe' = [probe EXCEPT
                    !.call = "edit_distance",
                    !.ret = EditFindBestMatch(probe.input_tokens, probe.candidates)]
    /\ pc' = "matched"
    /\ UNCHANGED parseVars

NextMatch == LcsFindBestMatchCall \/ EditFindBestMatchCall

SpecMatch == InitMatch /\ [][NextMatch]_vars

(***************************************************************************)
(* TextNormalizer.normalize called on a text, then on its own result       *)
(***************************************************************************)

\* the greatest length of a text to normalize
MaxNormLen == 3

\* the characters of the texts: letters, whitespace, the meaningful and the
\* noise punctuation, and the degree sign (category So)
NormChars == {"a", "B", "à", CapitalDottedI, " ", ".", ",", "/", "-", "_", "°"}

NormTexts == UNION {[1..n -> NormChars] : n \in 0..MaxNormLen}

\* a normalizer with or without char_map, about to normalize x in a mode
InitNorm ==
    /\ NoParse
    /\ pc = "norm_call"
    /\ \E x \in NormTexts, aggressive \in BOOLEAN, hasCharMap \in BOOLEAN :
           probe = [x |-> x, aggressive |-> aggressive, hasCharMap |-> hasCharMap,
                    once |-> <<>>, twice |-> <<>>]

\* normalizer.normalize(x, aggressive)
NormalizeCall ==
    /\ pc = "norm_call"
    /\ probe' = [probe EXCEPT
                    !.once = TextNormalize(probe.x, probe.aggressive, probe.hasCharMap)]
    /\ pc' = "normalized"
    /\ UNCHANGED parseVars

\* normalizer.normalize(y, aggressive) on the result y of the first call
NormalizeAgainCall ==
    /\ pc = "normalized"
    /\ probe' = [probe EXCEPT
                    !.twice = TextNormalize(probe.once, probe.aggressive, probe.hasCharMap)]
    /\ pc' = "renormalized"
    /\ UNCHANGED parseVars

NextNorm == NormalizeCall \/ NormalizeAgainCall

SpecNorm == InitNorm /\ [][NextNorm]_vars

(***************************************************************************)
(* Properties                                                              *)
(***************************************************************************)

\* parse has returned: result is the value the caller receives
Returned == pc = "done"

\* a name and a record's name are the same name of the reference data
SameName(a, b) == DbNormalize(a) = DbNormalize(b)

\* C1: in the result returned by parse, a district that is present carries
\* the code of a district record of that name whose parent province code is
\* the returned province_code, and a ward that is present carries the code of
\* a ward record of that name whose parent district code is the returned
\* district_code.
C1_CodesFollowHierarchy ==
    Returned =>
        /\ result.district # <<>> =>
              \E k \in 1..Len(db.districts) :
                  /\ db.districts[k].Code = result.district_code
                  /\ SameName(db.districts[k].Name, result.district)
                  /\ db.districts[k].ProvinceCode = result.province_code
        /\ result.ward # <<>> =>
              \E k \in 1..Len(db.wards) :
                  /\ db.wards[k].Code = result.ward_code
                  /\ SameName(db.wards[k].Name, result.ward)
                  /\ db.wards[k].DistrictCode = result.district_code

\* C1 witness: a full province, district, ward result is returned from a
\* hierarchy in which two provinces each have a district of the same name
C1_Witness ==
    /\ Returned
    /\ result.ward # <<>>
    /\ db.districts[1].Name = db.districts[2].Name
    /\ db.districts[1].ProvinceCode # db.districts[2].ProvinceCode

\* a result with every name and every code absent
AllEmpty(r) ==
    /\ r.province = <<>> /\ r.district = <<>> /\ r.ward = <<>>
    /\ r.province_code = "" /\ r.district_code = "" /\ r.ward_code = ""

\* C2: the result returned by parse is either all-empty with valid = false,
\* or has province_code set with valid = true; it never has a district
\* without a province, or a ward without a district.
C2_EmptyOrProvince ==
    Returned =>
        /\ \/ AllEmpty(result) /\ ~result.valid
           \/ result.province_code # "" /\ result.valid
        /\ result.district # <<>> => result.province # <<>>
        /\ result.ward # <<>> => result.district # <<>>

\* C2 witness: the trie tier matched a province and a ward but no district,
\* and a valid result is returned
C2_Witness ==
    /\ Returned
    /\ result.valid
    /\ tiers = <<"trie">>
    /\ found[1].ward # <<>>
    /\ found[1].district = <<>>

\* the order of the tiers
TierOrder == <<"trie", "lcs", "edit_distance">>

\* a tier's result after _is_valid_result, by the tier's position
Validated(k) == <<trie_result, lcs_result, edit_result>>[k]

\* two results carry the same names and codes
SameAddress(a, b) ==
    /\ a.province = b.province /\ a.district = b.district /\ a.ward = b.ward
    /\ a.province_code = b.province_code /\ a.district_code = b.district_code
    /\ a.ward_code = b.ward_code

C4_DistrictWithoutCodeCleared ==
    Returned /\ tiers # <<>> =>
        LET raw == found[Len(tiers)]
        IN  raw.province_code # "" /\ raw.district # <<>> /\ raw.district_code = "" =>
                /\ result.province = raw.province
                /\ result.province_code = raw.province_code
                /\ result.district = <<>> /\ result.district_code = ""
                /\ result.ward = <<>> /\ result.ward_code = ""
                /\ result.valid

\* C4 witness: the trie tier found a province with a code, a district name
\* with no code under it, and a ward name, and parse has returned
C4_Witness ==
    /\ Returned
    /\ tiers = <<"trie">>
    /\ found[1].province_code # ""
    /\ found[1].district # <<>>
    /\ found[1].district_code = ""
    /\ found[1].ward # <<>>


\* the token span (start, end) of the hit chosen by _select_best_match
SelectedSpan(matches) ==
    IF matches = <<>> THEN <<>> ELSE <<BestHit(matches)[2], BestHit(matches)[3]>>

\* two token spans share no token
Disjoint(a, b) == a = <<>> \/ b = <<>> \/ a[2] <= b[1] \/ b[2] <= a[1]

\* C5: in the trie tier the token spans of the selected province hit, the
\* selected district hit and the selected ward hit are pairwise disjoint, so
\* that no token is counted for two levels.
C5_SelectedSpansDisjoint ==
    tiers # <<>> =>
        LET p == SelectedSpan(trie_run.province_matches)
            d == SelectedSpan(trie_run.district_matches)
            w == SelectedSpan(trie_run.ward_matches)
        IN  Disjoint(p, d) /\ Disjoint(p, w) /\ Disjoint(d, w)

\* the Levenshtein distance of s and t, by its recurrence
Levenshtein(s, t) ==
    LET lev[i \in 0..Len(s), j \in 0..Len(t)] ==
            IF i = 0 THEN j
            ELSE IF j = 0 THEN i
            ELSE Min(Min(lev[i - 1, j] + 1, lev[i, j - 1] + 1),
                     lev[i - 1, j - 1] + (IF s[i] = t[j] THEN 0 ELSE 1))
    IN  lev[Len(s), Len(t)]

\* C6: bounded_edit_distance(s, t, k) returns the Levenshtein distance of s
\* and t when that distance is at most k, and k + 1 otherwise.
C6_BoundedIsLevenshtein ==
    pc = "edit_done" =>
        probe.distance = IF Levenshtein(probe.s, probe.t) <= probe.max_k
                         THEN Levenshtein(probe.s, probe.t)
                         ELSE probe.max_k + 1

\* every character of t is in chars
Only(t, chars) == \A i \in 1..Len(t) : t[i] \in chars

\* C7: parse returns the empty result (all names and codes absent,
\* confidence 0, tier none, valid false) for the empty string, for every
\* whitespace-only string and for every punctuation-only string.
C7_BlankOrPunctuationIsEmpty ==
    Returned /\ (Only(text, {" "}) \/ Only(text, Punctuation)) =>
        result = EmptyAddress

\* C8: when the trie tier finds a province but no district, the LCS tier is
\* entered; it keeps that province, and the district and the ward it finds
\* have codes under that province and that district.
C8_ProvinceOnlyEntersLcs ==
    Returned /\ tiers # <<>> /\ found[1].province # <<>> /\ found[1].district = <<>> =>
        /\ Len(tiers) >= 2
        /\ tiers[2] = "lcs"
        /\ found[2].province = found[1].province
        /\ found[2].district # <<>> => found[2].district_code # ""
        /\ found[2].ward # <<>> => found[2].ward_code # ""

\* the confidence, in tenths, the tier and the depth of a result stand for
Ladder(r) ==
    CASE r.match_method = "trie" -> 10
      [] r.match_method = "lcs" ->
            IF r.ward # <<>> THEN 7 ELSE IF r.district # <<>> THEN 6 ELSE 5
      [] r.match_method = "edit_distance" ->
            IF r.ward # <<>> THEN 5 ELSE IF r.district # <<>> THEN 4 ELSE 3
      [] OTHER -> 0

OneCharOff(a, b) ==
    /\ Len(a) = Len(b)
    /\ Cardinality({i \in 1..Len(a) : a[i] # b[i]}) = 1

\* C10: an input that matches no trie key and differs from a province's
\* normalized name by a single character is returned with that province
\* only, produced by the edit-distance tier, with confidence 0.5.
C10_TypoProvinceByEditTier ==
    Returned /\ tiers # <<>>
             /\ trie_run.province_matches = <<>>
             /\ trie_run.district_matches = <<>>
             /\ trie_run.ward_matches = <<>> =>
        \A k \in 1..Len(db.provinces) :
            OneCharOff(normalized, DbNormalize(db.provinces[k].Name)) =>
                /\ result.province_code = db.provinces[k].Code
                /\ result.district = <<>>
                /\ result.ward = <<>>
                /\ result.match_method = "edit_distance"
                /\ result.confidence = 5


\* the keys inserted into the trie so far
InsertedKeys == {probe.inserted[m][1] : m \in 1..Len(probe.inserted)}

\* the value given by the first insertion of key
FirstValue(key) ==
    LET first == CHOOSE m \in 1..Len(probe.inserted) :
                     /\ probe.inserted[m][1] = key
                     /\ \A l \in 1..(m - 1) : probe.inserted[l][1] # key
    IN  probe.inserted[first][2]

\* the key a hit (value, i, j) of a scan of t stands for: tokens i..j-1 of t
\* joined by single spaces
HitKey(t, hit) == Join(SubSeq(Split(t), hit[2] + 1, hit[3]))

\* C11: after any sequence of insertions, lookup(key) returns the value of the
\* first insertion of key, and every hit a scan reports for key carries that
\* value: a later insertion of the key with another value changes nothing.
C11_FirstInsertionWins ==
    pc = "trie" =>
        /\ (probe.call = "search" /\ probe.arg \in InsertedKeys)
               => probe.ret = FirstValue(probe.arg)
        /\ probe.call = "scan"
               => \A h \in 1..Len(probe.ret) :
                      probe.ret[h][1] = FirstValue(HitKey(probe.arg, probe.ret[h]))

\* the windows (i, j) of the tokens of t, at most 6 tokens wide, whose tokens
\* joined by single spaces are an inserted key
KeyWindows(t) ==
    {w \in (0..Len(Split(t))) \X (0..Len(Split(t))) :
        /\ 1 <= w[2] - w[1]
        /\ w[2] - w[1] <= 6
        /\ Join(SubSeq(Split(t), w[1] + 1, w[2])) \in InsertedKeys}

\* C12: scan(text) returns one hit (value, i, j) for each pair i, j with
\* 1 <= j - i <= 6 whose tokens i..j-1 joined by single spaces are an inserted
\* key, the value being one inserted for that key, and no other hit; a key of
\* more than 6 tokens is never reported.
C12_ScanReportsKeyWindows ==
    (pc = "trie" /\ probe.call = "scan") =>
        /\ {<<probe.ret[h][2], probe.ret[h][3]>> : h \in 1..Len(probe.ret)}
               = KeyWindows(probe.arg)
        /\ Len(probe.ret) = Cardinality(KeyWindows(probe.arg))
        /\ \A h \in 1..Len(probe.ret) :
               /\ <<HitKey(probe.arg, probe.ret[h]), probe.ret[h][1]>>
                      \in {probe.inserted[m] : m \in 1..Len(probe.inserted)}
               /\ probe.ret[h][3] - probe.ret[h][2] <= 6

\* a scan of eight tokens after a key of six and a key of seven tokens were
\* inserted: the windows of six tokens are reported
C12_Witness ==
    /\ pc = "trie"
    /\ probe.call = "scan"
    /\ Len(Split(probe.arg)) = 8
    /\ {Repeated(6), Repeated(7)} \subseteq InsertedKeys
    /\ Len(probe.ret) = 3


\* C13: after the trie of a level is built from the reference data, scanning
\* the aggressive-normalized display name N of any record of the level with
\* that trie returns a hit whose value is N.
C13_EveryNameFindsItself ==
    pc = "scanned" =>
        \E h \in 1..Len(probe.ret) : probe.ret[h][1] = probe.arg


\* the records among records whose name is name
Named(records, name) == {i \in 1..Len(records) : records[i].Name = name}

\* name is the name of one ward only, and of no district and no province
UnambiguousWardName(name) ==
    /\ Cardinality(Named(db.wards, name)) = 1
    /\ Named(db.districts, name) = {}
    /\ Named(db.provinces, name) = {}

\* r is ward w with its parent district and that district's parent province
IsChainOf(r, w) ==
    \E j \in 1..Len(db.districts), k \in 1..Len(db.provinces) :
        /\ db.districts[j].Code = w.DistrictCode
        /\ db.provinces[k].Code = db.districts[j].ProvinceCode
        /\ r.ward = w.Name
        /\ r.district = db.districts[j].Name
        /\ r.province = db.provinces[k].Name

\* C14: parse of a text that is the display name of a ward, the name being
\* unambiguous, returns that ward with its parent district and that district's
\* parent province, by the trie tier with confidence 1.0.
C14_WardNameGivesItsChain ==
    (pc = "done" /\ probe = NoProbe) =>
        \A i \in 1..Len(db.wards) :
            (text = db.wards[i].Name /\ UnambiguousWardName(text)) =>
                /\ IsChainOf(result, db.wards[i])
                /\ result.match_method = "trie"
                /\ result.confidence = 10

\* C15: when parse(x) returned a result r with some name, parse of the text
\* "ward, district, province" made of the names present in r returns the ward,
\* the district and the province of r.
C15_NamesTextReproducesTriple ==
    (pc = "done" /\ probe # NoProbe) =>
        /\ result.ward = probe.first.ward
        /\ result.district = probe.first.district
        /\ result.province = probe.first.province


\* the similarity of candidate k of the call in probe
Similarity(k) == ComputeLcsSimilarity(probe.input_tokens, probe.candidates[k].tokens)

FracEqual(a, b) == a.num * b.den = b.num * a.den

\* C16: LCS find_best_match returns no match when no candidate reaches the
\* threshold 0.4; otherwise it returns a candidate of highest similarity, and
\* among the candidates of highest similarity one with the fewest tokens,
\* whatever the order of the list.
C16_LcsBestIsHighestThenShortest ==
    (pc = "matched" /\ probe.call = "lcs") =>
        LET all   == 1..Len(probe.candidates)
            reach == {k \in all : FracAtLeastThreshold(Similarity(k))}
        IN  IF reach = {} THEN probe.ret = <<>>
            ELSE \E k \in reach :
                    /\ probe.ret = probe.candidates[k].name
                    /\ \A m \in all : ~FracGreater(Similarity(m), Similarity(k))
                    /\ \A m \in all :
                           FracEqual(Similarity(m), Similarity(k))
                               => Len(probe.candidates[k].tokens)
                                      <= Len(probe.candidates[m].tokens)

\* the Levenshtein distance of the input phrase to the phrase of candidate k
Distance(k) == Levenshtein(Join(probe.input_tokens), Join(probe.candidates[k].tokens))

\* the normalized score 1 - distance / max(|s|, |t|) of candidate k, as a
\* fraction (0 when both phrases are empty)
NormalizedScore(k) ==
    LET max_len == Max(Len(Join(probe.input_tokens)), Len(Join(probe.candidates[k].tokens)))
    IN  IF max_len > 0 THEN [num |-> max_len - Distance(k), den |-> max_len]
        ELSE [num |-> 0, den |-> 1]

\* C17: edit-distance find_best_match returns no match when no candidate is
\* within distance 2; otherwise it returns a candidate of minimum edit
\* distance, and among the candidates of minimum distance one of highest
\* normalized score.
C17_EditBestIsNearestThenHighestScore ==
    (pc = "matched" /\ probe.call = "edit_distance") =>
        LET all    == 1..Len(probe.candidates)
            within == {k \in all : Distance(k) <= MaxDistance}
        IN  IF within = {} THEN probe.ret = <<>>
            ELSE \E k \in within :
                    /\ probe.ret = probe.candidates[k].name
                    /\ \A m \in all : Distance(k) <= Distance(m)
                    /\ \A m \in all :
                           Distance(m) = Distance(k)
                               => ~FracGreater(NormalizedScore(m), NormalizedScore(k))


\* C18: in structural mode and in aggressive mode, normalizing the result of
\* normalize(x) again gives that result: normalize(normalize(x)) = normalize(x).
C18_NormalizeIdempotent ==
    pc = "renormalized" => probe.twice = probe.once

\* C19: the aggressive-mode result for x is the structural-mode result for x
\* with '.', ',' and '/' turned into spaces (and the whitespace collapsed):
\* every other character, the hyphen included, is treated as in structural
\* mode.
C19_AggressiveIsStructuralPlusSpaces ==
    (pc = "normalized" /\ probe.aggressive) =>
        probe.once = CleanWhitespace(SpaceChars(
                         TextNormalize(probe.x, FALSE, probe.hasCharMap), MeaningfulPunct))

\* C20: in aggressive mode each '.', ',' and '/' of x acts as a space, it is
\* not deleted: the result for x is the result for x with these characters
\* replaced by spaces, so words they separate stay separate tokens.
C20_MeaningfulPunctBecomesSpace ==
    (pc = "normalized" /\ probe.aggressive) =>
        probe.once = TextNormalize(SpaceChars(probe.x, MeaningfulPunct),
                                   TRUE, probe.hasCharMap)

\* two letters separated by one '.', ',' or '/' only, normalized in
\* aggressive mode: the result has two tokens
C20_Witness ==
    /\ pc = "normalized"
    /\ probe.aggressive
    /\ Len(probe.x) = 3
    /\ probe.x[1] \in Letters
    /\ probe.x[2] \in MeaningfulPunct
    /\ probe.x[3] \in Letters
    /\ Len(Split(probe.once)) = 2

\* x with a space inserted wherever a lowercase letter is immediately
\* followed by an uppercase letter
RECURSIVE SplitAtCaseBoundaries(_, _)
SplitAtCaseBoundaries(x, i) ==
    IF i > Len(x) THEN <<>>
    ELSE IF i < Len(x) /\ x[i] \in LowerLetters /\ x[i + 1] \in UpperLetters
         THEN <<x[i], " ">> \o SplitAtCaseBoundaries(x, i + 1)
         ELSE <<x[i]>> \o SplitAtCaseBoundaries(x, i + 1)

\* C21: normalize treats a lowercase letter immediately followed by an
\* uppercase letter as a word boundary: the tokens of normalize(x) are the
\* tokens of normalize of x with a space inserted at each such position.
C21_CaseBoundarySplitsWords ==
    pc = "normalized" =>
        Split(probe.once)
            = Split(TextNormalize(SplitAtCaseBoundaries(probe.x, 1),
                                  probe.aggressive, probe.hasCharMap))

(***************************************************************************)
(* Administrative prefixes: admin_prefix_handler.py and prefix_router.py   *)
(***************************************************************************)

\* ADMIN_PREFIXES[level]['patterns'], in the order of the table; every pattern
\* is a literal (the only regex syntax in the table is the escaped dot)
PrefixPatterns ==
    [province |->
        << <<"t","h","a","n","h"," ","p","h","o"," ","t","r","u","c"," ",
             "t","h","u","o","c"," ","t","r","u","n","g"," ","u","o","n","g">>,
           <<"t","h","a","n","h"," ","p","h","o">>,
           <<"t","i","n","h">>,
           <<"t","p",".">>, <<"t",".">>,
           <<"t","p">>, <<"t">> >>,
     district |->
        << <<"t","h","a","n","h"," ","p","h","o">>,
           <<"t","h","i"," ","x","a">>,
           <<"q","u","a","n">>,
           <<"h","u","y","e","n">>,
           <<"t","p",".">>, <<"t","x",".">>, <<"q",".">>, <<"h",".">>,
           <<"t","p">>, <<"t","x">>, <<"q">>, <<"h">> >>,
     ward |->
        << <<"t","h","i"," ","t","r","a","n">>,
           <<"p","h","u","o","n","g">>,
           <<"x","a">>,
           <<"t","t",".">>, <<"p",".">>, <<"x",".">>,
           <<"t","t">>, <<"p">>, <<"x">> >>]

\* get_all_patterns_ordered(): the tables of the levels by priority
AllPatternsOrdered ==
    PrefixPatterns.province \o PrefixPatterns.district \o PrefixPatterns.ward

\* str.lstrip('. ')
RECURSIVE LStripDotsAndSpaces(_)
LStripDotsAndSpaces(s) ==
    IF s # <<>> /\ s[1] \in {".", " "} THEN LStripDotsAndSpaces(Tail(s)) ELSE s

\* the end of the match of '^' + pattern + '[\s\.]?' on text, or -1: the
\* separator after the pattern is optional
MatchEnd(s, pattern) ==
    IF ~StartsAt(s, 1, pattern) THEN -1
    ELSE IF Len(s) > Len(pattern) /\ s[Len(pattern) + 1] \in {" ", "."}
         THEN Len(pattern) + 1
         ELSE Len(pattern)

\* the loop of _remove_prefix over the patterns, from the k-th on
RECURSIVE RemoveFirstPattern(_, _, _)
RemoveFirstPattern(s, patterns, k) ==
    IF k > Len(patterns) THEN s
    ELSE IF MatchEnd(s, patterns[k]) >= 0
         THEN LStripDotsAndSpaces(Strip(Drop(s, MatchEnd(s, patterns[k]) + 1)))
         ELSE RemoveFirstPattern(s, patterns, k + 1)

\* AdminPrefixHandler._remove_prefix(text, level)
RemovePrefix(s, level) ==
    IF level \in DOMAIN PrefixPatterns
    THEN RemoveFirstPattern(Strip(s), PrefixPatterns[level], 1)
    ELSE IF level = "auto"
         THEN RemoveFirstPattern(Strip(s), AllPatternsOrdered, 1)
         ELSE Strip(s)

\* AdminPrefixHandler.expand(text, level) of a handler made without data_dir:
\* there is no abbreviation builder and _expand_abbreviation returns its argument
Expand(s, level) == Strip(RemovePrefix(s, level))

\* PrefixRouter.detect_level_and_extract(text); level "none" is None
DetectLevelAndExtract(s) ==
    IF Expand(s, "province") # s
    THEN [level |-> "province", core |-> Expand(s, "province")]
    ELSE IF Expand(s, "district") # s
    THEN [level |-> "district", core |-> Expand(s, "district")]
    ELSE IF Expand(s, "ward") # s
    THEN [level |-> "ward", core |-> Expand(s, "ward")]
    ELSE [level |-> "none", core |-> s]

MaxPrefixLen == 3

PrefixChars == {"t", "p", "q", "h", "x", "a", " ", "."}

PrefixLevels == {"province", "district", "ward", "auto", "street"}

\* the texts of the router's own test table next to all short texts
PrefixTexts ==
    UNION {[1..n -> PrefixChars] : n \in 0..MaxPrefixLen}
        \cup { <<"t","a","n"," ","b","i","n","h">>,
               <<"h","o"," ","c","h","i"," ","m","i","n","h">>,
               <<"t","t"," ","t","a","n"," ","b","i","n","h">>,
               <<"t","i","n","h"," ","a">>,
               <<"q","u","a","n"," ","t","a","n">> }

\* a handler and a router, about to be called on a text
InitPrefix ==
    /\ NoParse
    /\ pc = "prefix_call"
    /\ \E t \in PrefixTexts, level \in PrefixLevels :
           probe = [text |-> t, level |-> level, call |-> "", ret |-> <<>>]

\* handler._remove_prefix(text, level)
RemovePrefixCall ==
    /\ pc = "prefix_call"
    /\ probe' = [probe EXCEPT !.call = "_remove_prefix",
                              !.ret = RemovePrefix(probe.text, probe.level)]
    /\ pc' = "prefix_done"
    /\ UNCHANGED parseVars

\* router.detect_level_and_extract(text)
DetectLevelCall ==
    /\ pc = "prefix_call"
    /\ probe' = [probe EXCEPT !.call = "detect_level_and_extract",
                              !.ret = DetectLevelAndExtract(probe.text)]
    /\ pc' = "prefix_done"
    /\ UNCHANGED parseVars

NextPrefix == RemovePrefixCall \/ DetectLevelCall

SpecPrefix == InitPrefix /\ [][NextPrefix]_vars

\* some prefix of the level's table starts the text and is followed by
\* whitespace, a dot or the end of the text
PrefixWithSeparator(s, level) ==
    \E k \in 1..Len(PrefixPatterns[level]) :
        LET p == PrefixPatterns[level][k]
        IN  /\ StartsAt(s, 1, p)
            /\ Len(s) = Len(p) \/ s[Len(p) + 1] \in {" ", "."}

\* C22: a prefix of the level's table is removed from the start of the text
\* only when it is followed by whitespace, a dot or the end of the text:
\* otherwise _remove_prefix returns the text unchanged, and a text with no
\* such prefix at any level is reported by the router as having no prefix.
C22_PrefixNeedsSeparator ==
    pc = "prefix_done" /\ probe.text = Strip(probe.text) =>
        /\ (/\ probe.call = "_remove_prefix"
            /\ probe.level \in DOMAIN PrefixPatterns
            /\ ~PrefixWithSeparator(probe.text, probe.level))
           => probe.ret = probe.text
        /\ (/\ probe.call = "detect_level_and_extract"
            /\ \A level \in DOMAIN PrefixPatterns :
                   ~PrefixWithSeparator(probe.text, level))
           => probe.ret = [level |-> "none", core |-> probe.text]

(***************************************************************************)
(* Abbreviation dictionary: abbreviation_builder.py                        *)
(***************************************************************************)

\* the first characters of the tokens
FirstChars(tokens) == [i \in 1..Len(tokens) |-> <<tokens[i][1]>>]

\* the function without the dotted initials
GenerateInitialsNoDotted(normalized_name) ==
    LET tokens == Split(normalized_name)
    IN  IF Len(tokens) = 0 THEN <<>>
        ELSE IF Len(tokens) = 1 THEN <<tokens[1]>>
        ELSE << Concat(FirstChars(tokens)), Concat(tokens) >>

\* AbbreviationBuilder._generate_initials(normalized_name): a list of keys
GenerateInitials(normalized_name) ==
    LET tokens == Split(normalized_name)
    IN  IF Len(tokens) = 0 THEN <<>>
        ELSE IF Len(tokens) = 1 THEN <<tokens[1]>>
        ELSE << Concat(FirstChars(tokens)),
                JoinWith(<<".">>, FirstChars(tokens)),
                Concat(tokens) >>

\* abbrev_to_entities[abbrev].append(normalized) for each abbrev of the list
RECURSIVE AppendUnderKeys(_, _, _)
AppendUnderKeys(abbrev_to_entities, keys, name) ==
    IF keys = <<>> THEN abbrev_to_entities
    ELSE LET k == Head(keys)
             old == Get(abbrev_to_entities, k, <<>>)
             new == [x \in DOMAIN abbrev_to_entities \cup {k} |->
                        IF x = k THEN Append(old, name)
                        ELSE abbrev_to_entities[x]]
         IN  AppendUnderKeys(new, Tail(keys), name)

\* the lines of the file that are not blank, stripped
RECURSIVE ReadEntities(_)
ReadEntities(lines) ==
    IF lines = <<>> THEN <<>>
    ELSE IF Strip(Head(lines)) = <<>> THEN ReadEntities(Tail(lines))
    ELSE <<Strip(Head(lines))>> \o ReadEntities(Tail(lines))

\* normalize_text(entity, NormalizationConfig(provinces=[]))
NormalizeEntity(entity) == NormalizeText(entity, <<>>)

\* the loop of _build_abbreviations_for_level over the entities
RECURSIVE AbbrevToEntities(_, _)
AbbrevToEntities(entities, acc) ==
    IF entities = <<>> THEN acc
    ELSE AbbrevToEntities(Tail(entities),
             AppendUnderKeys(acc, GenerateInitials(NormalizeEntity(Head(entities))),
                             NormalizeEntity(Head(entities))))

\* AbbreviationBuilder._build_abbreviations_for_level on the lines of one
\* level's file: the three attributes of that level
BuildAbbreviationsForLevel(lines) ==
    LET entities == ReadEntities(lines)
        a2e == AbbrevToEntities(entities, <<>>)
    IN  [known_entities |-> {NormalizeEntity(entities[i]) : i \in 1..Len(entities)},
         abbreviations |->
            [k \in {x \in DOMAIN a2e : Len(a2e[x]) = 1} |-> a2e[k][1]],
         ambiguous |->
            [k \in {x \in DOMAIN a2e : Len(a2e[x]) # 1} |-> a2e[k]]]

\* AbbreviationBuilder.get_full_name(abbreviation, level); None is <<>>
GetFullName(builder, abbreviation) ==
    IF abbreviation \in DOMAIN builder.abbreviations
    THEN builder.abbreviations[abbreviation]
    ELSE IF abbreviation \in DOMAIN builder.ambiguous
         THEN builder.ambiguous[abbreviation][1]
         ELSE <<>>

\* AbbreviationBuilder.get_all_candidates(abbreviation, level)
GetAllCandidates(builder, abbreviation) ==
    IF abbreviation \in DOMAIN builder.abbreviations
    THEN <<builder.abbreviations[abbreviation]>>
    ELSE IF abbreviation \in DOMAIN builder.ambiguous
         THEN builder.ambiguous[abbreviation]
         ELSE <<>>

MaxEntities == 2

\* lines of a level's file: one- to three-token names, two of them with the
\* same initials, one with a prefix, and a blank line
EntityLines ==
    { <<"a">>, <<"a", " ", "b">>, <<"a", "x", " ", "b", "x">>,
      <<"a", "b", " ", "x", " ", "b">>, <<"b", " ", "i", " ", "a", "b">>,
      <<"B", "à", " ", "a", "b">>, <<" ">> }

EntityFiles == UNION {[1..n -> EntityLines] : n \in 0..MaxEntities}

AbbrevKeys ==
    { <<"a">>, <<"a", "b">>, <<"a", ".", "b">>, <<"a", "x", "b", "x">>,
      <<"a", "b", " ", "b">>, <<"b", " ", "a", "b">>, <<"a", "x", "b">>,
      <<"b", "a">>, <<"b", "i", "a">>, <<"x">> }

\* AbbreviationBuilder.__init__: empty maps, the file of one level not yet read
InitAbbrev ==
    /\ NoParse
    /\ pc = "abbrev_new"
    /\ \E lines \in EntityFiles :
           probe = [lines |-> lines,
                    builder |-> [known_entities |-> {}, abbreviations |-> <<>>,
                                 ambiguous |-> <<>>],
                    arg |-> <<>>, ret |-> <<>>, candidates |-> <<>>]

\* builder._build_abbreviations_for_level(level, filename)
BuildAbbreviationsCall ==
    /\ pc = "abbrev_new"
    /\ probe' = [probe EXCEPT !.builder = BuildAbbreviationsForLevel(probe.lines)]
    /\ pc' = "abbrev_built"
    /\ UNCHANGED parseVars

\* builder.get_full_name(abbreviation, level) and
\* builder.get_all_candidates(abbreviation, level)
GetFullNameCall(abbreviation) ==
    /\ pc = "abbrev_built"
    /\ probe' = [probe EXCEPT !.arg = abbreviation,
                              !.ret = GetFullName(probe.builder, abbreviation),
                              !.candidates = GetAllCandidates(probe.builder, abbreviation)]
    /\ pc' = "abbrev_looked_up"
    /\ UNCHANGED parseVars

NextAbbrev ==
    \/ BuildAbbreviationsCall
    \/ \E abbreviation \in AbbrevKeys : GetFullNameCall(abbreviation)

SpecAbbrev == InitAbbrev /\ [][NextAbbrev]_vars

\* the candidates of every key of the dictionary
CandidatesOf(builder, key) == Range(GetAllCandidates(builder, key))

\* the keys of the three types of a multi-token name
InitialsKey(n) == Concat(FirstChars(Split(n)))

DottedKey(n) == JoinWith(<<".">>, FirstChars(Split(n)))

CompactKey(n) == Concat(Split(n))

FirstLastKey(n) == Split(n)[1] \o <<" ">> \o Split(n)[Len(Split(n))]

MultiToken(builder) == {n \in builder.known_entities : Len(Split(n)) >= 2}

\* C23 as stated: for every multi-token name the dictionary has the keys
\* bare initials, dotted initials and no-space compaction, and the key
\* "first-token last-token" when the name has at least 3 tokens, each
\* leading back to the normalized name.
C23_FourKeyTypes ==
    pc = "abbrev_built" =>
        \A n \in MultiToken(probe.builder) :
            /\ n \in CandidatesOf(probe.builder, InitialsKey(n))
            /\ n \in CandidatesOf(probe.builder, DottedKey(n))
            /\ n \in CandidatesOf(probe.builder, CompactKey(n))
            /\ Len(Split(n)) >= 3 => n \in CandidatesOf(probe.builder, FirstLastKey(n))

\* C23 amended: for every multi-token name the dictionary has the three keys
\* bare initials, dotted initials and no-space compaction, each leading back
\* to the normalized name, and the dictionary has no other keys than these
\* and the single-token names themselves (no first-plus-last key is made).
C23_ThreeKeyTypes ==
    pc = "abbrev_built" =>
        /\ \A n \in MultiToken(probe.builder) :
               /\ n \in CandidatesOf(probe.builder, InitialsKey(n))
               /\ n \in CandidatesOf(probe.builder, DottedKey(n))
               /\ n \in CandidatesOf(probe.builder, CompactKey(n))
        /\ DOMAIN probe.builder.abbreviations \cup DOMAIN probe.builder.ambiguous
             = UNION {{InitialsKey(n), DottedKey(n), CompactKey(n)} :
                          n \in MultiToken(probe.builder)}
               \cup {n \in probe.builder.known_entities : Len(Split(n)) = 1}

\* a dictionary built from a file with a name of three tokens
C23_Witness ==
    /\ pc = "abbrev_built"
    /\ \E n \in probe.builder.known_entities :
           /\ Len(Split(n)) >= 3
           /\ probe.builder.abbreviations[DottedKey(n)] = n

\* the keys a normalized name generates
KeysOfName(n) ==
    IF Len(Split(n)) = 0 THEN {}
    ELSE IF Len(Split(n)) = 1 THEN {Split(n)[1]}
    ELSE {InitialsKey(n), DottedKey(n), CompactKey(n)}

\* the names of the dictionary that generate a key
GeneratedBy(builder, key) == {n \in builder.known_entities : key \in KeysOfName(n)}

\* the normalized names of the file's lines, in the order of the file
NamesInOrder(lines) ==
    [i \in 1..Len(ReadEntities(lines)) |-> NormalizeEntity(ReadEntities(lines)[i])]

\* the distinct elements of a sequence, each at its first position
RECURSIVE FirstInsertionOrder(_, _)
FirstInsertionOrder(names, seen) ==
    IF names = <<>> THEN <<>>
    ELSE IF Head(names) \in seen THEN FirstInsertionOrder(Tail(names), seen)
    ELSE <<Head(names)>> \o FirstInsertionOrder(Tail(names), seen \cup {Head(names)})

\* the names of a sequence that generate the key, in the order of the sequence
RECURSIVE Generating(_, _)
Generating(names, key) ==
    IF names = <<>> THEN <<>>
    ELSE IF key \in KeysOfName(Head(names))
         THEN <<Head(names)>> \o Generating(Tail(names), key)
         ELSE Generating(Tail(names), key)

\* C24: a key generated by exactly one name is in the unambiguous map only,
\* with that name; a key generated by more than one name is in the ambiguous
\* map only, with the names that generate it in first-insertion order; a
\* lookup returns the unambiguous value if there is one, otherwise the first
\* ambiguous candidate, otherwise none.
C24_OneNameUnambiguousManyAmbiguous ==
    /\ pc = "abbrev_built" =>
           \A key \in AbbrevKeys :
               LET names == GeneratedBy(probe.builder, key)
                   unique == key \in DOMAIN probe.builder.abbreviations
                   shared == key \in DOMAIN probe.builder.ambiguous
               IN  /\ Cardinality(names) = 0 => ~unique /\ ~shared
                   /\ Cardinality(names) = 1 =>
                          /\ unique /\ ~shared
                          /\ probe.builder.abbreviations[key] \in names
                   /\ Cardinality(names) > 1 =>
                          /\ shared /\ ~unique
                          /\ probe.builder.ambiguous[key]
                               = FirstInsertionOrder(
                                     Generating(NamesInOrder(probe.lines), key), {})
    /\ pc = "abbrev_looked_up" =>
           probe.ret = IF probe.arg \in DOMAIN probe.builder.abbreviations
                       THEN probe.builder.abbreviations[probe.arg]
                       ELSE IF probe.arg \in DOMAIN probe.builder.ambiguous
                            THEN probe.builder.ambiguous[probe.arg][1]
                            ELSE <<>>

(***************************************************************************)
(* Two parse calls in flight on one parser                                 *)
(***************************************************************************)

MaxCallPieces == 1

\* the texts of the first call: the display names, a blank text and a text
\* that is no name
FirstCallInputs == {NameAb, NameA_b, NameBa, NameB, <<" ">>, <<"x", " ", "a">>}

\* the texts of the second call: the display names and the texts of a few pieces
CallInputs ==
    {NameAb, NameA_b, NameBa, NameB}
        \cup UNION {{Concat(ps) : ps \in [1..n -> Pieces]} : n \in 0..MaxCallPieces}

\* the locals of a parse call that has not started
IdleCall ==
    [pc |-> "idle", text |-> <<>>, normalized |-> <<>>, input_tokens |-> <<>>,
     trie_result |-> EmptyAddress, lcs_result |-> EmptyAddress,
     result |-> EmptyAddress]

\* NormalizationConfig.get_normalized_prefixes: the list is computed on the
\* first call and kept in config._normalized_prefixes (None is <<>>)
GetNormalizedPrefixes(cache) == IF cache = <<>> THEN AdminPrefixes ELSE cache

\* AddressParser.__init__, and two callers about to call parse: what the
\* parser shares between calls is db, with the prefix cache of its norm_config
InitInterleaved ==
    /\ \E h \in Hierarchies : db = BuildDatabase(h.provinces, h.districts, h.wards)
    /\ pc = "idle"
    /\ text = <<>>
    /\ normalized = <<>>
    /\ input_tokens = <<>>
    /\ trie_run = NoTrieRun
    /\ trie_result = EmptyAddress
    /\ lcs_result = EmptyAddress
    /\ edit_result = EmptyAddress
    /\ tiers = <<>>
    /\ found = <<>>
    /\ result = EmptyAddress
    /\ probe = [normalized_prefixes |-> <<>>, built |-> db, other |-> IdleCall,
                overlapped |-> FALSE]

\* the first caller enters parse: lines 99-110
FirstParseCall(t) ==
    /\ pc = "idle"
    /\ text' = t
    /\ IF IsBlank(t)
       THEN /\ pc' = "done"
            /\ normalized' = <<>>
            /\ input_tokens' = <<>>
            /\ probe' = probe
       ELSE /\ pc' = "tier1"
            /\ normalized' = NormalizeText(t, NormConfig(db))
            /\ input_tokens' = Split(NormalizeText(t, NormConfig(db)))
            /\ probe' = [probe EXCEPT
                            !.normalized_prefixes = GetNormalizedPrefixes(@),
                            !.overlapped = @ \/ probe.other.pc \notin {"idle", "done"}]
    /\ UNCHANGED <<db, trie_run, trie_result, lcs_result, edit_result, tiers,
                   found, result>>

\* the second caller enters parse: lines 99-110
OtherParseCall(t) ==
    /\ probe.other.pc = "idle"
    /\ probe' =
         IF IsBlank(t)
         THEN [probe EXCEPT !.other = [@ EXCEPT !.pc = "done", !.text = t]]
         ELSE [probe EXCEPT
                  !.other = [@ EXCEPT
                                !.pc = "tier1", !.text = t,
                                !.normalized = NormalizeText(t, NormConfig(db)),
                                !.input_tokens = Split(NormalizeText(t, NormConfig(db)))],
                  !.normalized_prefixes = GetNormalizedPrefixes(@),
                  !.overlapped = @ \/ pc \notin {"idle", "done"}]
    /\ UNCHANGED <<db, pc, text, normalized, input_tokens, trie_run, trie_result,
                   lcs_result, edit_result, tiers, found, result>>

\* the second call with its token list kept on the parser object, where the
\* first call's list is
OtherTier2SharedTokens ==
    /\ probe.other.pc = "tier2"
    /\ LET v == IsValidResult(TryLcsMatch(db, input_tokens, probe.other.trie_result))
       IN  probe' = [probe EXCEPT !.other =
              IF v.ok
              THEN [@ EXCEPT !.lcs_result = [v.result EXCEPT
                                                !.match_method = "lcs",
                                                !.confidence = LcsConfidence(v.result)],
                             !.result = [v.result EXCEPT
                                            !.match_method = "lcs",
                                            !.confidence = LcsConfidence(v.result)],
                             !.pc = "done"]
              ELSE [@ EXCEPT !.lcs_result = v.result, !.pc = "tier3"]]
    /\ UNCHANGED <<db, pc, text, normalized, input_tokens, trie_run, trie_result,
                   lcs_result, edit_result, tiers, found, result>>

\* the second call, lines 112-126: tier 1
OtherTier1 ==
    /\ probe.other.pc = "tier1"
    /\ LET v == IsValidResult(TryTrieMatch(db, probe.other.normalized).result)
       IN  probe' = [probe EXCEPT !.other =
              IF v.ok
              THEN [@ EXCEPT !.trie_result = [v.result EXCEPT
                                                 !.match_method = "trie",
                                                 !.confidence = 10],
                             !.result = [v.result EXCEPT
                                            !.match_method = "trie",
                                            !.confidence = 10],
                             !.pc = "done"]
              ELSE [@ EXCEPT !.trie_result = v.result, !.pc = "tier2"]]
    /\ UNCHANGED <<db, pc, text, normalized, input_tokens, trie_run, trie_result,
                   lcs_result, edit_result, tiers, found, result>>

\* the second call, lines 128-144: tier 2
OtherTier2 ==
    /\ probe.other.pc = "tier2"
    /\ LET v == IsValidResult(TryLcsMatch(db, probe.other.input_tokens,
                                          probe.other.trie_result))
       IN  probe' = [probe EXCEPT !.other =
              IF v.ok
              THEN [@ EXCEPT !.lcs_result = [v.result EXCEPT
                                                !.match_method = "lcs",
                                                !.confidence = LcsConfidence(v.result)],
                             !.result = [v.result EXCEPT
                                            !.match_method = "lcs",
                                            !.confidence = LcsConfidence(v.result)],
                             !.pc = "done"]
              ELSE [@ EXCEPT !.lcs_result = v.result, !.pc = "tier3"]]
    /\ UNCHANGED <<db, pc, text, normalized, input_tokens, trie_run, trie_result,
                   lcs_result, edit_result, tiers, found, result>>

\* the second call, lines 146-164: tier 3 and the empty result
OtherTier3 ==
    /\ probe.other.pc = "tier3"
    /\ LET v == IsValidResult(TryEditMatch(db, probe.other.input_tokens,
                                           probe.other.lcs_result))
       IN  probe' = [probe EXCEPT !.other =
              IF v.ok
              THEN [@ EXCEPT !.result = [v.result EXCEPT
                                            !.match_method = "edit_distance",
                                            !.confidence = EditConfidence(v.result)],
                             !.pc = "done"]
              ELSE [@ EXCEPT !.result = EmptyAddress, !.pc = "done"]]
    /\ UNCHANGED <<db, pc, text, normalized, input_tokens, trie_run, trie_result,
                   lcs_result, edit_result, tiers, found, result>>

NextInterleaved ==
    \/ \E t \in FirstCallInputs : FirstParseCall(t)
    \/ Tier1
    \/ Tier2
    \/ Tier3
    \/ \E t \in CallInputs : OtherParseCall(t)
    \/ OtherTier1
    \/ OtherTier2
    \/ OtherTier3

SpecInterleaved == InitInterleaved /\ [][NextInterleaved]_vars

\* what the tiers return for the tokens of a text on a database: tier 3
TierThreeResult(d, toks, prev) ==
    IF IsValidResult(TryEditMatch(d, toks, prev)).ok
    THEN [IsValidResult(TryEditMatch(d, toks, prev)).result EXCEPT
             !.match_method = "edit_distance",
             !.confidence = EditConfidence(IsValidResult(TryEditMatch(d, toks, prev)).result)]
    ELSE EmptyAddress

\* tier 2, then tier 3
TierTwoResult(d, toks, prev) ==
    IF IsValidResult(TryLcsMatch(d, toks, prev)).ok
    THEN [IsValidResult(TryLcsMatch(d, toks, prev)).result EXCEPT
             !.match_method = "lcs",
             !.confidence = LcsConfidence(IsValidResult(TryLcsMatch(d, toks, prev)).result)]
    ELSE TierThreeResult(d, toks, IsValidResult(TryLcsMatch(d, toks, prev)).result)

\* tier 1, then tier 2
TierOneResult(d, n) ==
    IF IsValidResult(TryTrieMatch(d, n).result).ok
    THEN [IsValidResult(TryTrieMatch(d, n).result).result EXCEPT
             !.match_method = "trie", !.confidence = 10]
    ELSE TierTwoResult(d, Split(n), IsValidResult(TryTrieMatch(d, n).result).result)

\* the result of a parse call that runs alone on the database d
ParseAlone(d, t) ==
    IF IsBlank(t) THEN EmptyAddress ELSE TierOneResult(d, NormalizeText(t, NormConfig(d)))

\* C25: parse never modifies the tries, the name-to-code maps, the parent
\* maps or the candidate lists (the database stays as it was built, and the
\* prefix cache only ever holds the one list), so each of two parse calls
\* interleaved in any way returns the result it returns when it runs alone.
C25_InterleavedAsSequential ==
    /\ db = probe.built
    /\ probe.normalized_prefixes \in {<<>>, AdminPrefixes}
    /\ pc = "done" => result = ParseAlone(probe.built, text)
    /\ probe.other.pc = "done" =>
           probe.other.result = ParseAlone(probe.built, probe.other.text)

\* two calls with different texts that were in flight together have both
\* returned, one from the trie tier and one from a later tier
C25_Witness ==
    /\ pc = "done"
    /\ probe.other.pc = "done"
    /\ probe.overlapped
    /\ text # probe.other.text
    /\ result.match_method = "trie"
    /\ probe.other.result.match_method \in {"lcs", "edit_distance"}

(***************************************************************************)
(* generate_aliases on its own                                             *)
(***************************************************************************)

MaxAliasPieces == 5

AliasPieces == {<<"a">>, <<"B">>, <<"à", "b">>, <<" ">>, <<".">>, <<"-">>}

\* display names: texts of a few pieces with at least one letter
AliasNames ==
    {n \in UNION {{Concat(ps) : ps \in [1..k -> AliasPieces]} : k \in 1..MaxAliasPieces} :
        \E i \in 1..Len(n) : n[i] \in Letters}

\* a display name, and the database's normalizer, about to be given to
\* generate_aliases
InitAlias ==
    /\ NoParse
    /\ pc = "alias_call"
    /\ \E n \in AliasNames : probe = [original_name |-> n, ret |-> {}]

\* generate_aliases(original_name, normalizer)
GenerateAliasesCall ==
    /\ pc = "alias_call"
    /\ probe' = [probe EXCEPT !.ret = GenerateAliases(probe.original_name)]
    /\ pc' = "aliased"
    /\ UNCHANGED parseVars

NextAlias == GenerateAliasesCall

SpecAlias == InitAlias /\ [][NextAlias]_vars

\* the variants applicable to a list of tokens
VariantsOf(toks) ==
    {Join(toks), Concat(toks)}
        \cup (IF Len(toks) >= 2
              THEN {Concat(FirstChars(toks)),
                    JoinWith(<<".">>, FirstChars(toks)),
                    FirstChars(toks)[1] \o <<".", " ">> \o Join(Tail(toks)),
                    FirstChars(toks)[1] \o <<" ">> \o Join(Tail(toks))}
              ELSE {})
        \cup (IF Len(toks) >= 3
              THEN {Join(<<toks[1], toks[Len(toks)]>>)}
              ELSE {})

LongestRightmost(matches, k) ==
    \A m \in 1..Len(matches) :
        /\ matches[k][3] - matches[k][2] >= matches[m][3] - matches[m][2]
        /\ matches[k][3] - matches[k][2] = matches[m][3] - matches[m][2]
               => matches[k][3] >= matches[m][3]

\* the name selected from a scan is the name of a longest, right-most hit
SelectedFrom(matches, name) ==
    matches # <<>> =>
        \E k \in 1..Len(matches) : matches[k][1] = name /\ LongestRightmost(matches, k)

\* C27: the hit selected from one trie scan is a hit of maximal token span
\* (end - start), and among the hits of maximal span one with the greatest
\* end index; so for the province, the district and the ward scan of tier 1.
C27_SelectedHitIsLongestRightmost ==
    tiers # <<>> =>
        /\ SelectedFrom(trie_run.province_matches, found[1].province)
        /\ SelectedFrom(trie_run.district_matches, found[1].district)
        /\ SelectedFrom(trie_run.ward_matches, found[1].ward)

\* a scan with hits of two names in which the first hit is not a longest,
\* right-most one
C27_Witness ==
    /\ tiers # <<>>
    /\ Len(trie_run.province_matches) >= 2
    /\ ~LongestRightmost(trie_run.province_matches, 1)
    /\ trie_run.province_matches[1][1] # found[1].province

(***************************************************************************)
(* The ward-code resolver and validate_hierarchy on one database           *)
(***************************************************************************)

\* AddressDatabase.validate_hierarchy(ward_name, district_name, province_name)
ValidateHierarchy(d, ward_name, district_name, province_name) ==
    LET province_code  == Get(d.province_name_to_code, province_name, "")
        district_codes == Get(d.district_name_to_codes, district_name, <<>>)
        ward_codes     == Get(d.ward_name_to_codes, ward_name, <<>>)
    IN  IF province_code = "" THEN FALSE
        ELSE IF district_codes = <<>> THEN FALSE
        ELSE IF ward_codes = <<>> THEN FALSE
        ELSE \E i \in 1..Len(ward_codes) :
                 LET ward_district == Get(d.ward_to_district, ward_codes[i], "")
                 IN  /\ ward_district \in Range(district_codes)
                     /\ Get(d.district_to_province, ward_district, "") = province_code

MaxWards == 2

WardCodes == <<"101", "102", "103">>

\* lists of at most MaxWards wards, each of either district
WardLists ==
    UNION {{[i \in 1..n |-> [Name |-> names[i], Code |-> WardCodes[i],
                             DistrictCode |-> parents[i]]] :
                names \in [1..n -> WardNames], parents \in [1..n -> {"11", "12"}]} :
           n \in 0..MaxWards}

\* the reference hierarchies with these wards
WardHierarchies ==
    {[h EXCEPT !.wards = wds] : h \in Hierarchies, wds \in WardLists}

QueryNames == {NameAb, NameB, NameA_b, NameBa}

\* AddressParser.__init__ on a hierarchy, and a caller with three names
InitHierarchy ==
    /\ \E h \in WardHierarchies : db = BuildDatabase(h.provinces, h.districts, h.wards)
    /\ pc = "hierarchy_call"
    /\ text = <<>>
    /\ normalized = <<>>
    /\ input_tokens = <<>>
    /\ trie_run = NoTrieRun
    /\ trie_result = EmptyAddress
    /\ lcs_result = EmptyAddress
    /\ edit_result = EmptyAddress
    /\ tiers = <<>>
    /\ found = <<>>
    /\ result = EmptyAddress
    /\ \E w \in WardNames, dn \in DistrictNames, p \in QueryNames :
           probe = [ward_name |-> w, district_name |-> dn, province_name |-> p,
                    ward_code |-> "", valid |-> FALSE]

\* parser._find_valid_ward_code(ward_name, district_name, province_name)
FindValidWardCodeCall ==
    /\ pc = "hierarchy_call"
    /\ probe' = [probe EXCEPT !.ward_code =
                    FindValidWardCode(db, probe.ward_name, probe.district_name,
                                      probe.province_name)]
    /\ pc' = "resolved"
    /\ UNCHANGED parseVars

\* parser.db.validate_hierarchy(ward_name, district_name, province_name)
ValidateHierarchyCall ==
    /\ pc = "resolved"
    /\ probe' = [probe EXCEPT !.valid =
                    ValidateHierarchy(db, probe.ward_name, probe.district_name,
                                      probe.province_name)]
    /\ pc' = "validated"
    /\ UNCHANGED parseVars

NextHierarchy == FindValidWardCodeCall \/ ValidateHierarchyCall

SpecHierarchy == InitHierarchy /\ [][NextHierarchy]_vars

\* C28: the ward-code resolver and the triple validator agree on every
\* hierarchy: _find_valid_ward_code(w, d, p) returns a code if and only if
\* validate_hierarchy(w, d, p) is true, also when a province contains
\* several districts with the same name.
C28_ResolverAgreesWithValidator ==
    pc = "validated" => ((probe.ward_code # "") <=> probe.valid)

\* t is the display name of a province, a district or a ward of the database
IsDisplayName(d, t) ==
    \/ \E i \in 1..Len(d.provinces) : d.provinces[i].Name = t
    \/ \E i \in 1..Len(d.districts) : d.districts[i].Name = t
    \/ \E i \in 1..Len(d.wards) : d.wards[i].Name = t

\* C29: index-time and query-time normalization agree on the reference
\* names: when parse is given a display name N, the tokens it scans are the
\* tokens of the base key of N in its trie, the aggressive-normalized N of
\* the database's normalizer; so also for names with diacritics.
C29_QueryTokensAreBaseKey ==
    pc = "tier1" /\ IsDisplayName(db, text) =>
        input_tokens = Split(DbNormalize(text))

\* C30: the span masked for a level is the span of the hit chosen by the
\* best-hit rule: the (start, end) recorded for the selected province, and
\* for the selected district, is that of the longest, right-most hit, also
\* when the same display name is hit at several positions of the input.
C30_MaskedSpanIsBestHitSpan ==
    tiers # <<>> =>
        /\ trie_run.province_span = SelectedSpan(trie_run.province_matches)
        /\ trie_run.district_span = SelectedSpan(trie_run.district_matches)

====
